---------------------------- MODULE Spec2Model ----------------------------
(***************************************************************************)
(* Pause-to-code backend (codio-backend/pause_to_code_service.py).         *)
(*                                                                         *)
(* PauseToCodeService keeps two keyed stores: the dict processing_progress *)
(* (one progress record per video id) and the cache directory (one        *)
(* <video_id>_analysis.json per id), plus the media files the retrieval    *)
(* step leaves under <cache_dir>/videos.  The Flask front end runs         *)
(* threaded, so process_video / download_video_only calls interleave with  *)
(* status, cancel and query calls.                                         *)
(*                                                                         *)
(* Time values (timestamps, tolerances) are counted in ticks of 0.1 s.     *)
(***************************************************************************)
EXTENDS Integers, Sequences, FiniteSets, TLC

VARIABLES
    cache,                \* cache dir: video id -> persisted analysis document
    processing_progress,  \* dict processing_progress: video id -> progress record
    files,                \* media files present under <cache_dir>/videos
    job,                  \* per worker thread: the call it runs and where it is
    resp,                 \* response of the step just taken (status, cancel, query)
    hist,                 \* per worker: what its current call has written so far
    cancelled,            \* ids cancelled while uncached, no call for them since
    reader,               \* a status call suspended between two reads of an entry
    clock                 \* datetime.now(), in whole ticks

vars == <<cache, processing_progress, files, job, resp, hist, cancelled, reader,
          clock>>

(***************************************************************************)
(* Bounds of the model                                                     *)
(***************************************************************************)
MaxFrames == 2            \* samples one sampling run returns at most
FrameStride == 2          \* decoded frames between two samples
Jobs == {"w1", "w2"}      \* worker threads
DownloadPcts == {10, 60}  \* percentages the download hook reports
PairMaxFrames == 1        \* samples per video when two workers run side by side
MaxClock == 2             \* ticks of the clock

(***************************************************************************)
(* Python values                                                           *)
(***************************************************************************)
NoneStr == "None"
NoneOpt == [some |-> FALSE, val |-> <<>>]
Some(v) == [some |-> TRUE, val |-> v]
\* Python truthiness of an Optional[List]: not None and not empty
Truthy(o) == o.some /\ o.val # <<>>

\* dict / directory as a function whose domain is the set of present keys
DictPut(d, k, v) == [x \in (DOMAIN d) \cup {k} |-> IF x = k THEN v ELSE d[x]]
DictDel(d, k) == [x \in (DOMAIN d) \ {k} |-> d[x]]
EmptyDict == [x \in {} |-> 0]

Abs(x) == IF x < 0 THEN -x ELSE x

(***************************************************************************)
(* URLs.  A URL is a record of the parts the id derivation looks at:       *)
(*   watch    https://www.youtube.com/watch?v=<v>[&list=<list>]            *)
(*   short    https://youtu.be/<v>                                         *)
(*   playlist https://www.youtube.com/playlist?list=<list>                 *)
(*   other    any other URL; <v> is its last path component                *)
(***************************************************************************)
Url(kind, v, list) == [kind |-> kind, v |-> v, list |-> list]
WatchA == Url("watch", "a", "")
WatchB == Url("watch", "b", "")
URLs == {WatchA}          \* the URLs submitted for processing

\* hashlib.md5(url).hexdigest(): a key that is no YouTube id
Md5(url) == "md5:" \o url.kind \o ":" \o url.v \o ":" \o url.list

\* PauseToCodeService._extract_video_id
ExtractVideoId(url) ==
    IF url.kind = "short" THEN url.v
    ELSE IF url.kind = "watch" THEN url.v
    ELSE Md5(url)

\* PauseToCodeService._extract_playlist_id: None when there is no list= parameter
ExtractPlaylistId(url) == IF url.list = "" THEN NoneStr ELSE url.list

\* the id VideoProcessor.download_video derives for the folder name; for a
\* playlist URL yt-dlp's first entry overrides it
DownloadVideoId(url) ==
    IF url.kind \in {"watch", "short"} THEN url.v
    ELSE IF url.kind = "playlist" THEN "entry:" \o url.list
    ELSE url.v

\* playlist_id[:20] if playlist_id else 'single'
PlaylistFolder(playlist_id) == IF playlist_id = NoneStr THEN "single" ELSE playlist_id

\* a file below <cache_dir>/videos: nested is videos/<folder>/<vid>/video.mp4,
\* flat is a plain file videos/<vid>*.mp4
NestedPath(folder, vid) == [loc |-> "nested", folder |-> folder, vid |-> vid]
FlatPath(vid) == [loc |-> "flat", folder |-> "", vid |-> vid]

\* output_path of VideoProcessor.download_video
DownloadPath(url, playlist_id) ==
    NestedPath(PlaylistFolder(playlist_id), DownloadVideoId(url))

\* the ids clients ask about: those of the submitted URLs and one never submitted
VideoIds == {ExtractVideoId(u) : u \in URLs} \cup {ExtractVideoId(WatchB)}


(***************************************************************************)
(* Records                                                                 *)
(***************************************************************************)
\* the dict GeminiCodeExtractor.analyze_frame returns for a frame showing code
JudgmentCode ==
    [segment_type |-> "code", code_content |-> "print(1)", learning_topic |-> NoneStr,
     confidence |-> 90, language |-> "python", code_complete |-> TRUE]

\* ... for a frame showing a slide or the instructor
JudgmentLearning ==
    [segment_type |-> "learning", code_content |-> NoneStr, learning_topic |-> "loops",
     confidence |-> 80, language |-> "python", code_complete |-> FALSE]

\* GeminiCodeExtractor._create_error_result
CreateErrorResult ==
    [segment_type |-> "learning", code_content |-> NoneStr,
     learning_topic |-> "Analysis failed",
     confidence |-> 0, language |-> "python", code_complete |-> FALSE]

\* how the model call behind analyze_frame can end: a well-formed judgment, an
\* exception of the client, text that is no JSON, JSON that is no object, or an
\* object without the segment_type key
OracleOutcomes == {"code", "transport_error", "non_json", "not_object", "missing_kind"}
OracleFailures == OracleOutcomes \ {"code"}

\* a key a parsed dict does not have
MissingKey == "<missing>"

\* analyze_frame without the debug line that reads result['segment_type']: an
\* object lacking the key is returned as parsed
AnalyzeFrameResultUnchecked(outcome) ==
    IF outcome = "code" THEN JudgmentCode
    ELSE IF outcome = "missing_kind"
    THEN [JudgmentCode EXCEPT !.segment_type = MissingKey]
    ELSE CreateErrorResult

\* a well-formed reply whose segment_type is neither of the two kinds (the
\* prompt's own placeholder echoed back)
JudgmentOtherKind ==
    [segment_type |-> "code|learning", code_content |-> "print(1)",
     learning_topic |-> "loops", confidence |-> 70, language |-> "python",
     code_complete |-> FALSE]

\* analyze_frame: json.loads raises on non-JSON text, result['timestamp'] = ...
\* raises on a value that is no object, the f-string of logger.debug raises on a
\* missing segment_type; every exception ends in _create_error_result.  A
\* parsed object that has the key is returned as it is.
AnalyzeFrameResult(outcome) ==
    IF outcome = "code" THEN JudgmentCode
    ELSE IF outcome = "learning" THEN JudgmentLearning
    ELSE IF outcome = "other_kind" THEN JudgmentOtherKind
    ELSE CreateErrorResult

\* what analyze_frame can return
Judgments == {AnalyzeFrameResult(outcome) : outcome \in OracleOutcomes}

\* analysis['segment_type'] of process_video finds its key
HasKind(analysis) == analysis.segment_type # MissingKey

\* CodeSegment(...) as process_video builds it from a sample and its judgment
CodeSegment(timestamp, frame_number, analysis) ==
    [timestamp |-> timestamp, frame_number |-> frame_number,
     segment_type |-> analysis.segment_type,
     code_content |-> analysis.code_content,
     learning_topic |-> analysis.learning_topic,
     confidence |-> analysis.confidence,
     language |-> analysis.language,
     code_complete |-> analysis.code_complete]

\* frame_interval: float = 2.0, in ticks
FrameInterval == 20

\* a sampler that stamps a sample with the whole minute it lies in
FrameSampleByMinute(idx) ==
    [timestamp |-> ((idx * 20) \div 600) * 600, frame_number |-> idx * FrameStride + 1]

\* the idx-th (0-based) tuple of frames_data: (timestamp, frame_number)
FrameSample(idx) ==
    [timestamp |-> idx * FrameInterval, frame_number |-> idx * FrameStride + 1]

\* a transcript entry, and the transcript extract_transcript returns when the
\* video has captions
TranscriptEntry(timestamp, text, duration) ==
    [timestamp |-> timestamp, text |-> text, duration |-> duration]
Captions == << TranscriptEntry(0, "hello", 25) >>

\* a detected concept, and the lists ConceptDetector.detect_concepts can return
DetectedConcept(name, timestamps) ==
    [concept_name |-> name, category |-> "general", timestamps |-> timestamps,
     confidence |-> 50, description |-> NoneStr]
ConceptLists == { <<>>, << DetectedConcept("loops", <<0>>) >> }

\* the metadata dict download_video returns; its video_id is the id
\* download_video derives itself
Metadata(url) ==
    [title |-> "title", duration |-> 6000, author |-> "author", views |-> 7,
     video_id |-> DownloadVideoId(url)]

\* VideoAnalysis as process_video / download_video_only build it for a URL
VideoAnalysis(video_id, url, total, segments, transcript, concepts, extraction_date) ==
    [video_id |-> video_id, video_title |-> Metadata(url).title,
     duration |-> Metadata(url).duration,
     total_frames_analyzed |-> total,
     code_segments |-> segments, metadata |-> Metadata(url),
     extraction_date |-> extraction_date, transcript |-> transcript,
     detected_concepts |-> concepts]

(***************************************************************************)
(* Cache documents                                                         *)
(***************************************************************************)
\* an optional key of a JSON document: left out, holding null, or holding a list
Omitted == [present |-> FALSE, some |-> FALSE, val |-> <<>>]
JsonNull == [present |-> TRUE, some |-> FALSE, val |-> <<>>]
JsonList(v) == [present |-> TRUE, some |-> TRUE, val |-> v]

\* a writer that always writes both optional keys, null for a missing field
CacheDocumentWithNulls(analysis) ==
    [analysis EXCEPT
        !.transcript = IF Truthy(analysis.transcript) THEN JsonList(@.val) ELSE JsonNull,
        !.detected_concepts = IF Truthy(analysis.detected_concepts)
                              THEN JsonList(@.val) ELSE JsonNull]

\* the JSON document _cache_analysis writes: the optional keys are written
\* only when the field is truthy
CacheDocument(analysis) ==
    [analysis EXCEPT
        !.transcript = IF Truthy(analysis.transcript) THEN JsonList(@.val) ELSE Omitted,
        !.detected_concepts = IF Truthy(analysis.detected_concepts)
                              THEN JsonList(@.val) ELSE Omitted]

\* _cache_analysis: the cache directory after the write
CacheAnalysis(c, analysis) == DictPut(c, analysis.video_id, CacheDocument(analysis))

\* a decoder that turns a missing optional key into an empty list
LoadCachedAnalysisEmptyList(doc) ==
    [doc EXCEPT
        !.transcript = IF @.present /\ @.some /\ @.val # <<>>
                       THEN Some(@.val) ELSE Some(<<>>),
        !.detected_concepts = IF @.present /\ @.some /\ @.val # <<>>
                              THEN Some(@.val) ELSE Some(<<>>)]

\* _load_cached_analysis: a missing or empty optional key decodes as None
\* ('transcript' in data and data['transcript'])
LoadCachedAnalysis(doc) ==
    [doc EXCEPT
        !.transcript = IF @.present /\ @.some /\ @.val # <<>>
                       THEN Some(@.val) ELSE NoneOpt,
        !.detected_concepts = IF @.present /\ @.some /\ @.val # <<>>
                              THEN Some(@.val) ELSE NoneOpt]

\* cache_file.exists()
CacheFileExists(video_id) == video_id \in DOMAIN cache

\* the file between open(cache_file, 'w'), which truncates it, and the end of
\* json.dump: it exists and holds no complete JSON document
TruncatedDocument == [truncated |-> TRUE]

\* json.load(f) succeeds (it raises JSONDecodeError on a truncated file)
Decodable(doc) == "video_id" \in DOMAIN doc

(***************************************************************************)
(* get_code_at_timestamp                                                   *)
(***************************************************************************)
Inf == -1   \* float('inf'): min_diff before any segment qualified

\* the loop over analysis.code_segments from position i on; best is the index
\* of nearest_segment (0 for None)
\* the same condition with <= for <: a later segment at the same distance wins
CloserOrEqual(diff, min_diff, tolerance) ==
    (min_diff = Inf \/ diff <= min_diff) /\ diff <= tolerance

\* if diff < min_diff and diff <= tolerance
Closer(diff, min_diff, tolerance) ==
    (min_diff = Inf \/ diff < min_diff) /\ diff <= tolerance

RECURSIVE NearestFrom(_, _, _, _, _, _)
NearestFrom(segments, i, timestamp, tolerance, best, min_diff) ==
    IF i > Len(segments) THEN [best |-> best, min_diff |-> min_diff]
    ELSE LET diff == Abs(segments[i].timestamp - timestamp) IN
         IF Closer(diff, min_diff, tolerance)
         THEN NearestFrom(segments, i + 1, timestamp, tolerance, i, diff)
         ELSE NearestFrom(segments, i + 1, timestamp, tolerance, best, min_diff)

\* the nearest segment at any distance: the search with the tolerance left out
NearestSegmentAnyDistance(segments, timestamp, tolerance) ==
    NearestFrom(segments, 1, timestamp, Abs(timestamp) + 1000, 0, Inf)

NearestSegment(segments, timestamp, tolerance) ==
    NearestFrom(segments, 1, timestamp, tolerance, 0, Inf)

\* a query that answers a missing cache file like a miss within the file
QueryMissingAsNotFound(video_id, timestamp) == 
    [kind |-> "not_found", found |-> FALSE, timestamp_requested |-> timestamp,
     timestamp_actual |-> -1, time_difference |-> -1, segment_type |-> NoneStr,
     code_content |-> NoneStr, learning_topic |-> NoneStr, confidence |-> -1,
     language |-> NoneStr, code_complete |-> FALSE]

\* {"error": "Video not processed yet", "video_id": video_id, "message": ...}
QueryMissing(video_id, timestamp) ==
    [kind |-> "error", found |-> FALSE, timestamp_requested |-> timestamp,
     timestamp_actual |-> -1, time_difference |-> -1, segment_type |-> NoneStr,
     code_content |-> NoneStr, learning_topic |-> NoneStr, confidence |-> -1,
     language |-> NoneStr, code_complete |-> FALSE]

\* the dict get_code_at_timestamp returns; keys a branch leaves out hold the
\* defaults below
QueryResult(kind, requested) ==
    [kind |-> kind, found |-> FALSE, timestamp_requested |-> requested,
     timestamp_actual |-> -1, time_difference |-> -1, segment_type |-> NoneStr,
     code_content |-> NoneStr, learning_topic |-> NoneStr, confidence |-> -1,
     language |-> NoneStr, code_complete |-> FALSE]

GetCodeAtTimestampResult(video_id, timestamp, tolerance) ==
    IF ~CacheFileExists(video_id) THEN QueryMissing(video_id, timestamp)
    ELSE IF ~Decodable(cache[video_id]) THEN QueryResult("raise", timestamp)
    ELSE
      LET analysis == LoadCachedAnalysis(cache[video_id])
          n == NearestSegment(analysis.code_segments, timestamp, tolerance)
      IN IF n.best = 0 THEN QueryResult("not_found", timestamp)
         ELSE LET seg == analysis.code_segments[n.best] IN
              IF seg.segment_type = "learning"
              THEN [QueryResult("learning", timestamp) EXCEPT
                        !.found = TRUE,
                        !.timestamp_actual = seg.timestamp,
                        !.time_difference = n.min_diff,
                        !.segment_type = "learning",
                        !.learning_topic = seg.learning_topic,
                        !.confidence = seg.confidence]
              ELSE [QueryResult("code", timestamp) EXCEPT
                        !.found = TRUE,
                        !.timestamp_actual = seg.timestamp,
                        !.time_difference = n.min_diff,
                        !.segment_type = "code",
                        !.code_content = seg.code_content,
                        !.confidence = seg.confidence,
                        !.language = seg.language,
                        !.code_complete = seg.code_complete]

(***************************************************************************)
(* Progress records                                                        *)
(***************************************************************************)
\* a stage label: its text and the numbers formatted into it
Label(text, n, m) == [text |-> text, n |-> n, m |-> m]

Progress(status, progress, stage, total_frames, current_frame) ==
    [status |-> status, progress |-> progress, stage |-> stage,
     total_frames |-> total_frames, current_frame |-> current_frame]

\* the record process_video and download_video_only start a job with
InitialProgress == Progress("downloading", 0, Label("Downloading video...", 0, 0), 0, 0)

\* current_frame / total_frames and its product with 75 are computed in binary
\* floating point (53-bit significand, round to nearest).  The operators below
\* give int((current_frame / total_frames) * 75) exactly, for
\* 1 <= current_frame <= total_frames, in integer arithmetic.
SignificandBits == 52

RECURSIVE Pow2(_)
Pow2(n) == IF n = 0 THEN 1 ELSE 2 * Pow2(n - 1)

\* 2^n modulo t
RECURSIVE Pow2Mod(_, _)
Pow2Mod(n, t) ==
    IF n = 0 THEN 1 % t
    ELSE LET half == Pow2Mod(n \div 2, t)
         IN IF n % 2 = 0 THEN (half * half) % t ELSE (2 * half * half) % t

\* the least k >= from with c * 2^k >= t: the quotient c / t lies in
\* [2^-k, 2^(1-k)) and is rounded to a multiple of 2^-(52 + k)
RECURSIVE QuotientShift(_, _, _)
QuotientShift(c, t, from) ==
    IF c * Pow2(from) >= t THEN from ELSE QuotientShift(c, t, from + 1)

\* floor(log2(x)) for x >= 1
RECURSIVE Log2Floor(_)
Log2Floor(x) == IF x < 2 THEN 0 ELSE 1 + Log2Floor(x \div 2)

\* int((c / t) * 75).  When 75 * c / t is no integer the rounding errors are too
\* small to matter.  When it is an integer K and the quotient was rounded down
\* by r / t units of its last place, the product is K - 75 * r / (t * 2^(52 + k));
\* it rounds to the float below K, and int() gives K - 1, when that distance
\* exceeds half the spacing of the floats below K.
IntRatio75(c, t) ==
    IF (75 * c) % t # 0 THEN (75 * c) \div t
    ELSE LET K == (75 * c) \div t
             k == QuotientShift(c, t, 0)
             r == (c * Pow2Mod(SignificandBits + k, t)) % t
             m == Log2Floor(K)
             e == IF K = Pow2(m) THEN m - 1 ELSE m
         IN IF r = 0 \/ 2 * r > t THEN K
            ELSE IF k + e < 1 THEN K
            ELSE IF 75 * r > t * Pow2(k + e - 1) THEN K - 1
            ELSE K

\* 20 + int((current_frame / total_frames) * 75)
FrameProgress(current_frame, total_frames) ==
    20 + IntRatio75(current_frame, total_frames)

\* the dict.update calls of process_video and download_video_only, each applied
\* to the entry it finds
ExtractingUpdate(info) ==
    [info EXCEPT !.status = "extracting", !.progress = 15,
                 !.stage = Label("Extracting frames...", 0, 0)]

\* the analyzing update without its 'status' key
AnalyzingUpdateNoStatus(info, total_frames) ==
    [info EXCEPT !.progress = 20,
                 !.stage = Label("Analyzing % frames with AI...", total_frames, 0),
                 !.total_frames = total_frames, !.current_frame = 0]

AnalyzingUpdate(info, total_frames) ==
    [info EXCEPT !.status = "analyzing", !.progress = 20,
                 !.stage = Label("Analyzing % frames with AI...", total_frames, 0),
                 !.total_frames = total_frames, !.current_frame = 0]

FrameUpdate(info, current_frame, total_frames) ==
    [info EXCEPT !.progress = FrameProgress(current_frame, total_frames),
                 !.current_frame = current_frame,
                 !.stage = Label("Analyzing frame %/%", current_frame, total_frames)]

SavingProgressUpdate(info) ==
    [info EXCEPT !.status = "completed", !.progress = 95,
                 !.stage = Label("Saving analysis...", 0, 0)]

\* a last update that leaves the status as it is
CompletedUpdateNoStatus(info, op) ==
    [info EXCEPT !.progress = 100,
                 !.stage = IF op = "process_video" THEN Label("Completed!", 0, 0)
                           ELSE Label("Download complete!", 0, 0)]

CompletedProgressUpdate(info, op) ==
    [info EXCEPT !.status = "completed", !.progress = 100,
                 !.stage = IF op = "process_video" THEN Label("Completed!", 0, 0)
                           ELSE Label("Download complete!", 0, 0)]

(***************************************************************************)
(* get_video_status                                                        *)
(***************************************************************************)
StatusResult(video_id, status, progress, stage, current_frame, total_frames) ==
    [video_id |-> video_id, status |-> status, progress |-> progress,
     stage |-> stage, current_frame |-> current_frame, total_frames |-> total_frames]

\* a search that also descends into the folders download_video creates
StatusVideoFilesRecursive(video_id) == {f \in files : f.vid = video_id}

\* video_dir.glob(f"{video_id}*.mp4"): plain files of videos/ named after the id
StatusVideoFiles(video_id) == {f \in files : f.loc = "flat" /\ f.vid = video_id}

\* the status with the progress entry consulted before the cache
GetVideoStatusProgressFirst(video_id) ==
    IF video_id \in DOMAIN processing_progress
    THEN LET progress_info == processing_progress[video_id] IN
         StatusResult(video_id, progress_info.status, progress_info.progress,
                      progress_info.stage, progress_info.current_frame,
                      progress_info.total_frames)
    ELSE IF CacheFileExists(video_id)
    THEN StatusResult(video_id, "completed", 100, Label("Ready for pause-to-code", 0, 0), 0, 0)
    ELSE IF StatusVideoFiles(video_id) # {}
    THEN StatusResult(video_id, "processing", 10, Label("Processing...", 0, 0), 0, 0)
    ELSE StatusResult(video_id, "not_found", 0, Label("Not started", 0, 0), 0, 0)

GetVideoStatusResult(video_id) ==
    IF CacheFileExists(video_id)
    THEN StatusResult(video_id, "completed", 100, Label("Ready for pause-to-code", 0, 0), 0, 0)
    ELSE IF video_id \in DOMAIN processing_progress
    THEN LET progress_info == processing_progress[video_id] IN
         StatusResult(video_id, progress_info.status, progress_info.progress,
                      progress_info.stage, progress_info.current_frame,
                      progress_info.total_frames)
    ELSE IF StatusVideoFiles(video_id) # {}
    THEN StatusResult(video_id, "processing", 10, Label("Processing...", 0, 0), 0, 0)
    ELSE StatusResult(video_id, "not_found", 0, Label("Not started", 0, 0), 0, 0)

(***************************************************************************)
(* cancel_video_processing                                                 *)
(***************************************************************************)
\* a cancel that clears the whole dict
CancelProgressAll(progress, video_id) == EmptyDict

\* del self.processing_progress[video_id] when present
CancelProgress(progress, video_id) ==
    IF video_id \in DOMAIN progress THEN DictDel(progress, video_id) ELSE progress

\* videos/<video_id>.mp4 and the plain files matching videos/<video_id>*
CancelFiles(fs, video_id) == {f \in fs : ~(f.loc = "flat" /\ f.vid = video_id)}

\* a cleanup pattern <video_id>* applied to the cache directory itself
CancelCachePurge(c, video_id) ==
    IF video_id \in DOMAIN c THEN DictDel(c, video_id) ELSE c

\* both patterns stay below videos/: the cache documents are out of their reach
CancelCache(c, video_id) == c


(***************************************************************************)
(* Worker threads                                                          *)
(***************************************************************************)
NoUrl == Url("none", "", "")
NoAnalysis == VideoAnalysis("", NoUrl, 0, <<>>, NoneOpt, NoneOpt, 0)
IdleJob ==
    [pc |-> "idle", op |-> "none", url |-> NoUrl, video_id |-> "", force |-> FALSE,
     total_frames |-> 0, analysis |-> NoAnalysis]

NoResp == [op |-> "none"]

\* the response of a process_video / download_video_only call: kind is "analysis"
\* or "summary" when it returns, "error" when its exception reaches the caller
CallResp(j, call, kind, analysis) ==
    [op |-> call.op, worker |-> j, video_id |-> call.video_id, force |-> call.force,
     kind |-> kind, analysis |-> analysis]

\* what a worker's latest call has done: the status values it wrote, whether it
\* wrote the cache, whether a cancel found it about to write, how it ended,
\* (when it raised) at which step, whether the file it opened for writing
\* held an analysis with segments other than those it went on to write, and
\* whether a cancel removed its progress entry before its 'Saving analysis...'
\* update
NoHist ==
    [op |-> "none", video_id |-> "", stages |-> <<>>, wrote |-> FALSE,
     raced |-> FALSE, ended |-> "none", at |-> "none", replaced |-> FALSE,
     cut |-> FALSE]
StartHist(call) ==
    [NoHist EXCEPT !.op = call.op, !.video_id = call.video_id]

CanCall(j) == job[j].pc = "idle"

\* no status call is suspended
NoReader == [pc |-> "idle"]

\* progress_info of a suspended status call refers to the dict object that was
\* in processing_progress when it was fetched.  A del or a fresh assignment of
\* processing_progress[video_id] unlinks that object, which then keeps the
\* values it had.
Unlink(video_id) ==
    IF reader.pc = "idle" THEN reader
    ELSE IF reader.video_id = video_id THEN [reader EXCEPT !.linked = FALSE]
    ELSE reader

\* the suspended status call, if any, still sees the entry as it first read it;
\* it is resumed as soon as the entry has been written or unlinked
ReaderQuiet ==
    IF reader.pc = "idle" THEN TRUE
    ELSE reader.linked /\ processing_progress[reader.video_id] = reader.first

\* processing_progress[video_id].update({...}) raises KeyError when cancel has
\* removed the entry; otherwise the named keys are overwritten
HasProgress(video_id) == video_id \in DOMAIN processing_progress

\* an except block that only re-raises
DiscardProgressKeep(progress, video_id) == progress

\* if video_id in self.processing_progress: del self.processing_progress[video_id]
DiscardProgress(progress, video_id) ==
    IF video_id \in DOMAIN progress THEN DictDel(progress, video_id) ELSE progress

\* an except block that also removes the cache file of the id
FailJobPurging(j) ==
    /\ processing_progress' = DiscardProgress(processing_progress, job[j].video_id)
    /\ cache' = IF job[j].video_id \in DOMAIN cache
                THEN DictDel(cache, job[j].video_id) ELSE cache
    /\ job' = [job EXCEPT ![j] = IdleJob]
    /\ resp' = CallResp(j, job[j], "error", NoAnalysis)
    /\ hist' = [hist EXCEPT ![j].ended = "raised", ![j].at = job[j].pc]
    /\ reader' = Unlink(job[j].video_id)
    /\ UNCHANGED <<files, cancelled, clock>>

\* except Exception as e: the entry is discarded and the exception re-raised
FailJob(j) ==
    /\ processing_progress' = DiscardProgress(processing_progress, job[j].video_id)
    /\ job' = [job EXCEPT ![j] = IdleJob]
    /\ resp' = CallResp(j, job[j], "error", NoAnalysis)
    /\ hist' = [hist EXCEPT ![j].ended = "raised", ![j].at = job[j].pc]
    /\ reader' = Unlink(job[j].video_id)
    /\ UNCHANGED <<cache, files, cancelled, clock>>

\* the status values a call has written, in order
LogStage(j, status) == [hist EXCEPT ![j].stages = Append(@, status)]

(***************************************************************************)
(* process_video                                                           *)
(***************************************************************************)
\* the cache test with the force flag read the wrong way round
ProcessCacheHitInverted(video_id, force_reprocess) ==
    CacheFileExists(video_id) /\ force_reprocess

\* if cache_file.exists() and not force_reprocess
ProcessCacheHit(video_id, force_reprocess) ==
    CacheFileExists(video_id) /\ ~force_reprocess

ProcessVideo(j, url, force_reprocess) ==
    LET video_id == ExtractVideoId(url) 
        call == [IdleJob EXCEPT !.op = "process_video", !.url = url,
                                !.video_id = video_id, !.force = force_reprocess]
    IN
    /\ CanCall(j)
    /\ IF ProcessCacheHit(video_id, force_reprocess)
       THEN /\ IF Decodable(cache[video_id])
               THEN /\ resp' = CallResp(j, call, "analysis",
                                        LoadCachedAnalysis(cache[video_id]))
                    /\ hist' = [hist EXCEPT ![j] =
                                  [StartHist(call) EXCEPT !.ended = "returned"]]
               ELSE \* _load_cached_analysis raises
                    /\ resp' = CallResp(j, call, "error", NoAnalysis)
                    /\ hist' = [hist EXCEPT ![j] =
                                  [StartHist(call) EXCEPT !.ended = "raised",
                                                          !.at = "load"]]
            /\ cancelled' = cancelled \ {video_id}
            /\ UNCHANGED <<cache, processing_progress, files, job, reader, clock>>
       ELSE /\ processing_progress' =
                  DictPut(processing_progress, video_id, InitialProgress)
            /\ job' = [job EXCEPT ![j] = [call EXCEPT !.pc = "download"]]
            /\ hist' = [hist EXCEPT ![j] =
                          [StartHist(call) EXCEPT !.stages = <<"downloading">>]]
            /\ cancelled' = cancelled \ {video_id}
            /\ reader' = Unlink(video_id)
            /\ resp' = NoResp
            /\ UNCHANGED <<cache, files, clock>>

(***************************************************************************)
(* VideoProcessor.download_video                                           *)
(***************************************************************************)
\* progress_hook, d['status'] == 'downloading': writes only while the entry exists
DownloadHook(j, pct) ==
    LET video_id == job[j].video_id IN
    /\ job[j].pc = "download"
    /\ HasProgress(video_id)
    /\ processing_progress' =
         [processing_progress EXCEPT ![video_id] =
            [@ EXCEPT !.progress = pct, !.stage = Label("Downloading: %", pct, 0)]]
    /\ resp' = NoResp
    /\ UNCHANGED <<cache, files, job, hist, cancelled, reader, clock>>

\* progress_hook, d['status'] == 'finished'
FinishedHook(progress, video_id) ==
    IF video_id \in DOMAIN progress
    THEN [progress EXCEPT ![video_id] =
            [@ EXCEPT !.progress = 100, !.stage = Label("Download complete!", 0, 0)]]
    ELSE progress

\* the download ends: the finished hook runs, video.mp4 is in its folder, and
\* download_video returns
DownloadFinish(j) ==
    LET video_id == job[j].video_id
        url == job[j].url
    IN
    /\ job[j].pc = "download"
    /\ processing_progress' = FinishedHook(processing_progress, video_id)
    /\ files' = files \cup {DownloadPath(url, ExtractPlaylistId(url))}
    /\ job' = [job EXCEPT ![j].pc =
                 IF job[j].op = "process_video" THEN "extract_update"
                 ELSE "transcript_update"]
    /\ resp' = NoResp
    /\ UNCHANGED <<cache, hist, cancelled, reader, clock>>

\* yt-dlp raises (metadata or download): download_video re-raises
DownloadFail(j) ==
    /\ job[j].pc = "download"
    /\ FailJob(j)

(***************************************************************************)
(* process_video, after the download                                       *)
(***************************************************************************)
\* update({'status': 'extracting', 'progress': 15, ...})
ExtractUpdate(j) ==
    LET video_id == job[j].video_id IN
    /\ job[j].pc = "extract_update"
    /\ IF HasProgress(video_id)
       THEN /\ processing_progress' =
                 [processing_progress EXCEPT ![video_id] = ExtractingUpdate(@)]
            /\ job' = [job EXCEPT ![j].pc = "sample"]
            /\ hist' = LogStage(j, processing_progress'[video_id].status)
            /\ resp' = NoResp
            /\ UNCHANGED <<cache, files, cancelled, reader, clock>>
       ELSE FailJob(j)

\* a run that takes up the segment list of the analysis already cached
InitialSegmentsFromCache(video_id) ==
    IF CacheFileExists(video_id)
    THEN IF Decodable(cache[video_id]) THEN cache[video_id].code_segments ELSE <<>>
    ELSE <<>>

\* code_segments = []: every run starts its own list
InitialSegments(video_id) == <<>>

\* extract_frames_fixed_interval returns n samples; then
\* update({'status': 'analyzing', 'progress': 20, ..., 'total_frames': n, 'current_frame': 0})
SampleFrames(j, n) ==
    LET video_id == job[j].video_id IN
    /\ job[j].pc = "sample"
    /\ IF HasProgress(video_id)
       THEN /\ processing_progress' =
                 [processing_progress EXCEPT ![video_id] = AnalyzingUpdate(@, n)]
            /\ job' = [job EXCEPT ![j].pc = "frames", ![j].total_frames = n,
                                  ![j].analysis =
                                     VideoAnalysis(video_id, job[j].url, n,
                                                   InitialSegments(video_id),
                                                   NoneOpt, NoneOpt, clock)]
            /\ hist' = LogStage(j, processing_progress'[video_id].status)
            /\ resp' = NoResp
            /\ UNCHANGED <<cache, files, cancelled, reader, clock>>
       ELSE FailJob(j)

\* extract_frames_fixed_interval raises (the file cannot be opened, ...)
SampleFail(j) ==
    /\ job[j].pc = "sample"
    /\ FailJob(j)

\* a loop that folds a segment into its predecessor when both carry the same
\* classification
AppendSegmentMerging(code_segments, segment) ==
    IF code_segments # <<>>
       /\ code_segments[Len(code_segments)].segment_type = segment.segment_type
       /\ code_segments[Len(code_segments)].code_content = segment.code_content
    THEN code_segments
    ELSE Append(code_segments, segment)

\* code_segments.append(segment): every segment is added
AppendSegment(code_segments, segment) == Append(code_segments, segment)

\* one turn of the frame loop: the progress update, the oracle call, the append
AnalyzeFrame(j, judgment) ==
    LET video_id == job[j].video_id
        idx == Len(job[j].analysis.code_segments)
        total_frames == job[j].total_frames
        current_frame == idx + 1
        sample == FrameSample(idx)
    IN
    /\ job[j].pc = "frames"
    /\ idx < total_frames
    /\ IF HasProgress(video_id) /\ HasKind(judgment)
       THEN /\ processing_progress' =
                 [processing_progress EXCEPT ![video_id] =
                    FrameUpdate(@, current_frame, total_frames)]
            /\ job' = [job EXCEPT ![j].analysis.code_segments =
                         AppendSegment(@, CodeSegment(sample.timestamp,
                                                      sample.frame_number, judgment))]
            /\ resp' = NoResp
            /\ UNCHANGED <<cache, files, hist, cancelled, reader, clock>>
       ELSE FailJob(j)

\* what extract_transcript hands its caller: a non-empty list, None (no subtitle
\* URL, HTTP error), or an exception (with no captions at all, or after a
\* caught yt-dlp error, transcript_entries is read before it was ever assigned)
TranscriptOutcomes == {"entries", "none", "raise"}

\* a call of extract_transcript without try ... except around it
TranscriptEscapesUncaught(outcome) == outcome = "raise"

\* try: extract_transcript(...) except Exception: the exception never leaves
\* the transcript step of process_video / of a fresh download_video_only
TranscriptEscapes(outcome) == FALSE

\* transcript_entries of process_video / download_video_only (try ... except: None)
TranscriptEntries(outcome) == IF outcome = "entries" THEN Some(Captions) ELSE NoneOpt

\* after the loop: the transcript step, then
\* update({'status': 'completed', 'progress': 95, 'stage': 'Saving analysis...'})
SavingUpdate(j, outcome) ==
    LET video_id == job[j].video_id IN
    /\ job[j].pc = "frames"
    /\ Len(job[j].analysis.code_segments) = job[j].total_frames
    /\ IF HasProgress(video_id) /\ ~TranscriptEscapes(outcome)
       THEN /\ processing_progress' =
                 [processing_progress EXCEPT ![video_id] = SavingProgressUpdate(@)]
            /\ job' = [job EXCEPT ![j].pc = "cache_write",
                                  ![j].analysis.transcript = TranscriptEntries(outcome),
                                  ![j].analysis.extraction_date = clock]
            /\ hist' = LogStage(j, processing_progress'[video_id].status)
            /\ resp' = NoResp
            /\ UNCHANGED <<cache, files, cancelled, reader, clock>>
       ELSE FailJob(j)

\* the cache holds a complete analysis of the id with at least one segment
HasSegments(video_id) ==
    IF CacheFileExists(video_id)
    THEN IF Decodable(cache[video_id]) THEN cache[video_id].code_segments # <<>>
         ELSE FALSE
    ELSE FALSE

\* self._cache_analysis(video_analysis, cache_file), first half:
\* open(cache_file, 'w') creates or truncates the file
CacheOpen(j) ==
    /\ job[j].pc = "cache_write"
    /\ cache' = DictPut(cache, job[j].video_id, TruncatedDocument)
    /\ job' = [job EXCEPT ![j].pc = "cache_dump"]
    /\ hist' = [hist EXCEPT ![j].wrote = TRUE,
                            ![j].replaced =
                               /\ HasSegments(job[j].video_id)
                               /\ cache[job[j].video_id].code_segments
                                     # job[j].analysis.code_segments]
    /\ resp' = NoResp
    /\ UNCHANGED <<processing_progress, files, cancelled, reader, clock>>

\* second half: json.dump has written the document and the file is closed
CacheWrite(j) ==
    /\ job[j].pc = "cache_dump"
    /\ cache' = CacheAnalysis(cache, job[j].analysis)
    /\ job' = [job EXCEPT ![j].pc = "completed_update"]
    /\ resp' = NoResp
    /\ UNCHANGED <<processing_progress, files, hist, cancelled, reader, clock>>

\* open(cache_file, 'w') raises
CacheWriteFail(j) ==
    /\ job[j].pc = "cache_write"
    /\ FailJob(j)

\* what the call returns: the VideoAnalysis, or download_video_only's summary
ReturnKind(j) == IF job[j].op = "process_video" THEN "analysis" ELSE "summary"

\* update({'status': 'completed', 'progress': 100, ...}) and the return
CompletedUpdate(j) ==
    LET video_id == job[j].video_id IN
    /\ job[j].pc = "completed_update"
    /\ IF HasProgress(video_id)
       THEN /\ processing_progress' =
                 [processing_progress EXCEPT ![video_id] =
                    CompletedProgressUpdate(@, job[j].op)]
            /\ job' = [job EXCEPT ![j] = IdleJob]
            /\ hist' = [LogStage(j, processing_progress'[video_id].status)
                          EXCEPT ![j].ended = "returned"]
            /\ resp' = CallResp(j, job[j], ReturnKind(j), job[j].analysis)
            /\ UNCHANGED <<cache, files, cancelled, reader, clock>>
       ELSE FailJob(j)


(***************************************************************************)
(* download_video_only                                                     *)
(***************************************************************************)
\* video_folder / "video.mp4" as download_video_only computes it
LazyVideoFile(url) ==
    NestedPath(PlaylistFolder(ExtractPlaylistId(url)), ExtractVideoId(url))

\* if video_file.exists() and cache_file.exists()
AlreadyDownloaded(url) ==
    LazyVideoFile(url) \in files /\ CacheFileExists(ExtractVideoId(url))

\* a backfill that fetches the captions again and appends them to the transcript
BackfillAppending(analysis, outcome, detected) ==
    LET withT == IF outcome = "entries"
                 THEN [analysis EXCEPT !.transcript = Some(@.val \o Captions)]
                 ELSE analysis
        needC == ~Truthy(withT.detected_concepts) /\ Truthy(withT.transcript)
        withC == IF needC /\ detected # <<>>
                 THEN [withT EXCEPT !.detected_concepts = Some(detected)]
                 ELSE withT
    IN [analysis |-> withC, data_updated |-> withC # analysis]

\* the backfill of a loaded analysis: [analysis, data_updated]
Backfill(analysis, outcome, detected) ==
    LET needT == ~Truthy(analysis.transcript)
        withT == IF needT /\ outcome = "entries"
                 THEN [analysis EXCEPT !.transcript = Some(Captions)]
                 ELSE analysis
        needC == ~Truthy(withT.detected_concepts) /\ Truthy(withT.transcript)
        withC == IF needC /\ detected # <<>>
                 THEN [withT EXCEPT !.detected_concepts = Some(detected)]
                 ELSE withT
    IN [analysis |-> withC, data_updated |-> withC # analysis]

\* the cache directory the backfill path leaves: rewritten if data_updated
BackfillCache(c, video_id, outcome, detected) ==
    LET analysis == LoadCachedAnalysis(c[video_id])
        b == Backfill(analysis, outcome, detected)
    IN IF ~Truthy(analysis.transcript) /\ outcome = "raise" THEN c
       ELSE IF b.data_updated THEN CacheAnalysis(c, b.analysis)
       ELSE c

DownloadVideoOnly(j, url, outcome, detected) ==
    LET video_id == ExtractVideoId(url)
        call == [IdleJob EXCEPT !.op = "download_video_only", !.url = url,
                                !.video_id = video_id]
    IN
    /\ CanCall(j)
    /\ IF AlreadyDownloaded(url)
       THEN LET analysis == IF Decodable(cache[video_id])
                            THEN LoadCachedAnalysis(cache[video_id]) ELSE NoAnalysis
                b == Backfill(analysis, outcome, detected)
            IN
            /\ IF ~Decodable(cache[video_id])
               THEN \* _load_cached_analysis raises
                    /\ resp' = CallResp(j, call, "error", NoAnalysis)
                    /\ hist' = [hist EXCEPT ![j] =
                                  [StartHist(call) EXCEPT !.ended = "raised",
                                                          !.at = "load"]]
                    /\ UNCHANGED cache
               ELSE IF ~Truthy(analysis.transcript) /\ outcome = "raise"
               THEN \* extract_transcript raises outside any try
                    /\ resp' = CallResp(j, call, "error", NoAnalysis)
                    /\ hist' = [hist EXCEPT ![j] =
                                  [StartHist(call) EXCEPT !.ended = "raised",
                                                          !.at = "backfill"]]
                    /\ UNCHANGED cache
               ELSE /\ resp' = CallResp(j, call, "summary", b.analysis)
                    /\ hist' = [hist EXCEPT ![j] =
                                  [StartHist(call) EXCEPT !.ended = "returned",
                                                          !.wrote = b.data_updated]]
                    /\ cache' = BackfillCache(cache, video_id, outcome, detected)
            /\ cancelled' = cancelled \ {video_id}
            /\ UNCHANGED <<processing_progress, files, job, reader, clock>>
       ELSE /\ processing_progress' =
                  DictPut(processing_progress, video_id, InitialProgress)
            /\ job' = [job EXCEPT ![j] = [call EXCEPT !.pc = "download"]]
            /\ hist' = [hist EXCEPT ![j] =
                          [StartHist(call) EXCEPT !.stages = <<"downloading">>]]
            /\ cancelled' = cancelled \ {video_id}
            /\ reader' = Unlink(video_id)
            /\ resp' = NoResp
            /\ UNCHANGED <<cache, files, clock>>

\* processing_progress[video_id]['stage'] = 'Extracting transcript...', then the
\* transcript step (its exception is caught)
TranscriptUpdate(j, outcome) ==
    LET video_id == job[j].video_id
        transcript_entries == TranscriptEntries(outcome)
    IN
    /\ job[j].pc = "transcript_update"
    /\ IF HasProgress(video_id) /\ ~TranscriptEscapes(outcome)
       THEN /\ processing_progress' =
                 [processing_progress EXCEPT ![video_id].stage =
                    Label("Extracting transcript...", 0, 0)]
            /\ job' = [job EXCEPT
                         ![j].pc = IF Truthy(transcript_entries)
                                   THEN "concepts_update" ELSE "cache_write",
                         ![j].analysis = VideoAnalysis(video_id, job[j].url, 0, <<>>,
                                                       transcript_entries, NoneOpt,
                                                       clock)]
            /\ resp' = NoResp
            /\ UNCHANGED <<cache, files, hist, cancelled, reader, clock>>
       ELSE FailJob(j)

\* processing_progress[video_id]['stage'] = 'Detecting concepts...', then detect_concepts
ConceptsUpdate(j, detected) ==
    LET video_id == job[j].video_id IN
    /\ job[j].pc = "concepts_update"
    /\ IF HasProgress(video_id)
       THEN /\ processing_progress' =
                 [processing_progress EXCEPT ![video_id].stage =
                    Label("Detecting concepts...", 0, 0)]
            /\ job' = [job EXCEPT ![j].pc = "cache_write",
                                  ![j].analysis.detected_concepts = Some(detected)]
            /\ resp' = NoResp
            /\ UNCHANGED <<cache, files, hist, cancelled, reader, clock>>
       ELSE FailJob(j)

(***************************************************************************)
(* ConceptDetector.detect_concepts and detect_and_store_concepts           *)
(***************************************************************************)
\* an entry of the 'concepts' list in the model's reply
ConceptData(concept_name, timestamps) ==
    [concept_name |-> concept_name, timestamps |-> timestamps]

\* a timestamp (45.5 s) that no sample and no caption of the modelled videos has
ForeignTime == 455

\* the replies of the concept model: a failure (exception, text that is no
\* JSON), no concepts, a concept without timestamps, a concept with a timestamp
\* of the model's own making
ConceptReplies ==
    { [ok |-> FALSE, concepts |-> <<>>],
      [ok |-> TRUE, concepts |-> <<>>],
      [ok |-> TRUE, concepts |-> << ConceptData("loops", <<>>) >>],
      [ok |-> TRUE, concepts |-> << ConceptData("loops", <<ForeignTime>>) >>] }

\* code_timestamps: the timestamps of the segments that are code and have text
RECURSIVE CodeTimestamps(_)
CodeTimestamps(code_segments) ==
    IF code_segments = <<>> THEN <<>>
    ELSE (IF Head(code_segments).code_content # NoneStr
             /\ Head(code_segments).segment_type = "code"
          THEN <<Head(code_segments).timestamp>> ELSE <<>>)
         \o CodeTimestamps(Tail(code_segments))

\* seq[:n]
FirstN(seq, n) == SubSeq(seq, 1, IF Len(seq) < n THEN Len(seq) ELSE n)

\* code_timestamps[:3]
FallbackCount == 3

\* timestamps = concept_data.get('timestamps', []); when there are none and
\* code_timestamps is not empty, code_timestamps[:3]
ConceptTimestamps(concept_data, code_timestamps, transcript) ==
    IF concept_data.timestamps = <<>> /\ code_timestamps # <<>>
    THEN FirstN(code_timestamps, FallbackCount)
    ELSE concept_data.timestamps

\* detect_concepts: [] without content to analyse and on any failure of the
\* model call; otherwise one DetectedConcept per entry of the reply
DetectConcepts(transcript, code_segments, reply) ==
    LET code_timestamps == CodeTimestamps(code_segments) IN
    IF ~Truthy(transcript) /\ code_timestamps = <<>> THEN <<>>
    ELSE IF ~reply.ok THEN <<>>
    ELSE [i \in 1..Len(reply.concepts) |->
            DetectedConcept(reply.concepts[i].concept_name,
                            ConceptTimestamps(reply.concepts[i], code_timestamps,
                                              transcript))]

\* a store that keeps the concepts already there when the new run found none,
\* and adds the new ones to them otherwise
StoreConceptsMerging(analysis, detected_concepts) ==
    [analysis EXCEPT !.detected_concepts =
        IF @.some THEN Some(@.val \o detected_concepts) ELSE Some(detected_concepts)]

\* analysis.detected_concepts = detected_concepts
StoreConcepts(analysis, detected_concepts) ==
    [analysis EXCEPT !.detected_concepts = Some(detected_concepts)]

\* get_detected_concepts: [] without cache file or without concepts
GetDetectedConceptsResult(video_id) ==
    IF ~CacheFileExists(video_id) THEN <<>>
    ELSE LET analysis == LoadCachedAnalysis(cache[video_id]) IN
         IF Truthy(analysis.detected_concepts) THEN analysis.detected_concepts.val
         ELSE <<>>

\* detect_and_store_concepts, called by a thread that runs no other call; the
\* response record also notes the concepts that were stored when the call began
DetectAndStoreConcepts(j, video_id, reply) ==
    /\ CanCall(j)
    /\ IF ~CacheFileExists(video_id)
       THEN /\ resp' = [op |-> "detect", worker |-> j, video_id |-> video_id,
                        kind |-> "list", out |-> <<>>, stored |-> <<>>]
            /\ UNCHANGED cache
       ELSE IF ~Decodable(cache[video_id])
       THEN \* _load_cached_analysis raises
            /\ resp' = [op |-> "detect", worker |-> j, video_id |-> video_id,
                        kind |-> "raise", out |-> <<>>, stored |-> <<>>]
            /\ UNCHANGED cache
       ELSE LET analysis == LoadCachedAnalysis(cache[video_id])
                detected_concepts == DetectConcepts(analysis.transcript,
                                                    analysis.code_segments, reply)
            IN /\ cache' = CacheAnalysis(cache, StoreConcepts(analysis, detected_concepts))
               /\ resp' = [op |-> "detect", worker |-> j, video_id |-> video_id,
                           kind |-> "list", out |-> detected_concepts,
                           stored |-> GetDetectedConceptsResult(video_id)]
    /\ UNCHANGED <<processing_progress, files, job, hist, cancelled, reader, clock>>

(***************************************************************************)
(* Calls that return at once                                               *)
(***************************************************************************)
GetVideoStatus(video_id) ==
    /\ resp' = [op |-> "status", video_id |-> video_id,
                out |-> GetVideoStatusResult(video_id)]
    /\ UNCHANGED <<cache, processing_progress, files, job, hist, cancelled, reader, clock>>

\* the keys of the returned dict in the order get_video_status reads them
StatusFields == <<"status", "progress", "stage", "current_frame", "total_frames">>

\* the number of keys a status call has read when its thread is suspended
TearPoints == {1, 3}

\* get_video_status up to a thread switch inside the returned dict literal:
\* the cache file is absent, progress_info is fetched and the first k keys read
StatusBegin(video_id, k) ==
    /\ reader.pc = "idle"
    /\ ~CacheFileExists(video_id)
    /\ video_id \in DOMAIN processing_progress
    /\ reader' = [pc |-> "reading", video_id |-> video_id, k |-> k,
                  first |-> processing_progress[video_id], linked |-> TRUE]
    /\ resp' = NoResp
    /\ UNCHANGED <<cache, processing_progress, files, job, hist, cancelled, clock>>

\* what progress_info holds now
ReaderObject ==
    IF reader.linked THEN processing_progress[reader.video_id] ELSE reader.first

\* the remaining keys are read and the dict is returned
StatusEnd ==
    /\ reader.pc = "reading"
    /\ resp' = [op |-> "status_resumed", video_id |-> reader.video_id,
                first |-> reader.first, last |-> ReaderObject,
                out |-> [video_id |-> reader.video_id] @@
                        [f \in {StatusFields[i] : i \in 1..Len(StatusFields)} |->
                           IF \E i \in 1..reader.k : StatusFields[i] = f
                           THEN reader.first[f] ELSE ReaderObject[f]]]
    /\ reader' = NoReader
    /\ UNCHANGED <<cache, processing_progress, files, job, hist, cancelled, clock>>

\* a worker between the progress update that precedes its cache write and the
\* end of the write
AboutToWrite(j) == job[j].pc \in {"cache_write", "cache_dump"}

\* a process_video call that has not yet made its 'Saving analysis...' update
BeforeSaving(j) ==
    /\ job[j].op = "process_video"
    /\ job[j].pc \in {"download", "extract_update", "sample", "frames"}

\* a complete analysis document is in the cache
HasAnalysis(video_id) == CacheFileExists(video_id) /\ Decodable(cache[video_id])

CancelVideoProcessing(video_id) ==
    /\ processing_progress' = CancelProgress(processing_progress, video_id)
    /\ files' = CancelFiles(files, video_id)
    /\ resp' = [op |-> "cancel", video_id |-> video_id]
    /\ hist' = [j \in Jobs |->
                  LET cut == \/ hist[j].cut
                             \/ /\ job[j].video_id = video_id
                                /\ BeforeSaving(j)
                                /\ HasProgress(video_id)
                  IN IF job[j].video_id = video_id /\ ~HasAnalysis(video_id)
                     THEN [hist[j] EXCEPT !.raced = AboutToWrite(j), !.cut = cut]
                     ELSE [hist[j] EXCEPT !.cut = cut]]
    /\ cancelled' = IF HasAnalysis(video_id) THEN cancelled
                    ELSE cancelled \cup {video_id}
    /\ cache' = CancelCache(cache, video_id)
    /\ reader' = Unlink(video_id)
    /\ UNCHANGED <<job, clock>>

\* a query that leaves a progress entry behind for the id it was asked about
GetCodeAtTimestampMarking(video_id, timestamp, tolerance) ==
    /\ resp' = [op |-> "query", video_id |-> video_id, timestamp |-> timestamp,
                tolerance |-> tolerance,
                out |-> GetCodeAtTimestampResult(video_id, timestamp, tolerance)]
    /\ processing_progress' =
          IF HasProgress(video_id) THEN processing_progress
          ELSE DictPut(processing_progress, video_id, InitialProgress)
    /\ UNCHANGED <<cache, files, job, hist, cancelled, reader, clock>>

GetCodeAtTimestamp(video_id, timestamp, tolerance) ==
    /\ resp' = [op |-> "query", video_id |-> video_id, timestamp |-> timestamp,
                tolerance |-> tolerance,
                out |-> GetCodeAtTimestampResult(video_id, timestamp, tolerance)]
    /\ UNCHANGED <<cache, processing_progress, files, job, hist, cancelled, reader, clock>>

(***************************************************************************)
(* The service                                                             *)
(***************************************************************************)
Init ==
    /\ cache = EmptyDict
    /\ processing_progress = EmptyDict
    /\ files = {}
    /\ job = [j \in Jobs |-> IdleJob]
    /\ resp = NoResp
    /\ hist = [j \in Jobs |-> NoHist]
    /\ cancelled = {}
    /\ reader = NoReader
    /\ clock = 0

\* a step of worker j: it takes a call for one of the given URLs, or goes on
\* with the call it runs
JobStepOn(j, urls) ==
    \/ \E url \in urls, force_reprocess \in BOOLEAN : ProcessVideo(j, url, force_reprocess)
    \/ \E url \in urls, outcome \in TranscriptOutcomes, detected \in ConceptLists :
          DownloadVideoOnly(j, url, outcome, detected)
    \/ \E pct \in DownloadPcts : DownloadHook(j, pct)
    \/ DownloadFinish(j)
    \/ DownloadFail(j)
    \/ ExtractUpdate(j)
    \/ \E n \in 0..MaxFrames : SampleFrames(j, n)
    \/ SampleFail(j)
    \/ \E judgment \in Judgments : AnalyzeFrame(j, judgment)
    \/ \E outcome \in TranscriptOutcomes : SavingUpdate(j, outcome)
    \/ \E outcome \in TranscriptOutcomes : TranscriptUpdate(j, outcome)
    \/ \E detected \in ConceptLists : ConceptsUpdate(j, detected)
    \/ CacheOpen(j)
    \/ CacheWrite(j)
    \/ CacheWriteFail(j)
    \/ CompletedUpdate(j)

JobStep(j) == JobStepOn(j, URLs)

\* the workers that take calls
Workers == {"w1"}

\* the point queries a player sends while jobs run
PollTimes == {0, 23}
PollTolerances == {10}

Next ==
    \/ /\ ReaderQuiet
       /\ \/ \E j \in Workers : JobStep(j)
          \/ \E video_id \in VideoIds : GetVideoStatus(video_id)
          \/ \E video_id \in VideoIds, k \in TearPoints : StatusBegin(video_id, k)
          \/ \E video_id \in VideoIds : CancelVideoProcessing(video_id)
          \/ \E video_id \in VideoIds, timestamp \in PollTimes,
                tolerance \in PollTolerances :
                GetCodeAtTimestamp(video_id, timestamp, tolerance)
    \/ StatusEnd

Spec == Init /\ [][Next]_vars

\* The service with concept detection runs between the worker's other calls
NextConcepts ==
    \/ Next
    \/ /\ ReaderQuiet
       /\ \E j \in Workers, video_id \in VideoIds, reply \in ConceptReplies :
             DetectAndStoreConcepts(j, video_id, reply)

SpecConcepts == Init /\ [][NextConcepts]_vars

\* Two request threads running process_video / download_video_only calls side
\* by side (no status, cancel or query traffic), on videos of at most
\* PairMaxFrames samples
NextPair ==
    \E j \in Jobs :
        /\ JobStep(j)
        /\ job'[j].total_frames <= PairMaxFrames

SpecPair == Init /\ [][NextPair]_vars

\* One worker serving calls for one URL, of any of the forms the id derivation
\* tells apart: watch?v=, youtu.be/, watch?v=&list=, playlist?list=, other
UrlForms ==
    {WatchA, Url("short", "a", ""), Url("watch", "a", "PL1"),
     Url("playlist", "", "PL1"), Url("other", "x", "")}

\* nothing on disk stems from another URL
OnlyUrl(url) ==
    /\ files \subseteq {DownloadPath(url, ExtractPlaylistId(url))}
    /\ DOMAIN cache \subseteq {ExtractVideoId(url)}
    /\ \A j \in Jobs : job[j].pc # "idle" => job[j].url = url

NextUrls ==
    \E j \in Workers, url \in UrlForms :
        /\ OnlyUrl(url)
        /\ JobStepOn(j, {url})

SpecUrls == Init /\ [][NextUrls]_vars

\* One worker and point queries, the frames judged in every way a well-formed
\* reply allows: code, learning, another kind, or a failure
KindOutcomes == OracleOutcomes \cup {"learning", "other_kind"}

NextKinds ==
    \/ \E j \in Workers : JobStep(j)
    \/ \E j \in Workers, outcome \in KindOutcomes :
          AnalyzeFrame(j, AnalyzeFrameResult(outcome))
    \/ \E video_id \in VideoIds, timestamp \in PollTimes,
          tolerance \in PollTolerances :
          GetCodeAtTimestamp(video_id, timestamp, tolerance)

SpecKinds == Init /\ [][NextKinds]_vars

\* Time passes between the calls: the clock advances while no call runs, up
\* to MaxClock ticks
Tick ==
    /\ \A j \in Jobs : job[j].pc = "idle"
    /\ clock < MaxClock
    /\ clock' = clock + 1
    /\ resp' = NoResp
    /\ UNCHANGED <<cache, processing_progress, files, job, hist, cancelled, reader>>

\* One worker running process_video, download_video_only and concept detection
\* calls for videos of at most PairMaxFrames samples, at different times
NextClock ==
    \/ \E j \in Workers :
          /\ JobStep(j)
          /\ job'[j].total_frames <= PairMaxFrames
    \/ \E j \in Workers, video_id \in VideoIds, reply \in ConceptReplies :
          DetectAndStoreConcepts(j, video_id, reply)
    \/ Tick

SpecClock == Init /\ [][NextClock]_vars

\* Two request threads serving different videos, with cancel and concept
\* detection calls in between.  Each thread runs process_video and
\* download_video_only calls for its own URL, started while its video is not
\* cached or served from the cache; the videos have at most PairMaxFrames
\* samples, every frame shows code and the captions are available.
ApartUrl(j) == IF j = "w1" THEN WatchA ELSE WatchB

ApartStep(j) ==
    \/ \E force_reprocess \in BOOLEAN : ProcessVideo(j, ApartUrl(j), force_reprocess)
    \/ \E detected \in ConceptLists :
          DownloadVideoOnly(j, ApartUrl(j), "entries", detected)
    \/ DownloadFinish(j)
    \/ DownloadFail(j)
    \/ ExtractUpdate(j)
    \/ \E n \in 0..PairMaxFrames : SampleFrames(j, n)
    \/ AnalyzeFrame(j, JudgmentCode)
    \/ SavingUpdate(j, "entries")
    \/ TranscriptUpdate(j, "entries")
    \/ \E detected \in ConceptLists : ConceptsUpdate(j, detected)
    \/ CacheOpen(j)
    \/ CacheWrite(j)
    \/ CompletedUpdate(j)

NextApart ==
    \/ \E j \in Jobs :
          /\ ApartStep(j)
          /\ (job[j].pc = "idle" /\ job'[j].pc # "idle") =>
                 ~CacheFileExists(ExtractVideoId(ApartUrl(j)))
    \/ \E video_id \in VideoIds : CancelVideoProcessing(video_id)
    \/ \E j \in Jobs, video_id \in VideoIds :
          DetectAndStoreConcepts(j, video_id, [ok |-> FALSE, concepts |-> <<>>])

SpecApart == Init /\ [][NextApart]_vars

\* Two request threads running process_video calls for the same URL (a video
\* of at most PairMaxFrames samples, every frame showing code, the captions
\* available), with cancel calls for its id in between
RetryStep(j) ==
    \/ \E force_reprocess \in BOOLEAN : ProcessVideo(j, WatchA, force_reprocess)
    \/ DownloadFinish(j)
    \/ ExtractUpdate(j)
    \/ \E n \in 0..PairMaxFrames : SampleFrames(j, n)
    \/ AnalyzeFrame(j, JudgmentCode)
    \/ SavingUpdate(j, "entries")
    \/ CacheOpen(j)
    \/ CacheWrite(j)
    \/ CompletedUpdate(j)

NextRetry ==
    \/ \E j \in Jobs : RetryStep(j)
    \/ CancelVideoProcessing(ExtractVideoId(WatchA))

SpecRetry == Init /\ [][NextRetry]_vars

\* One worker with status and cancel calls.  Every external call of a running
\* process_video / download_video_only call returns or raises in the end (the
\* download, the frame extraction, the judgment of a frame, the caption fetch,
\* the concept detection, the writing of the file), so that the call takes
\* its next step; the download hook may be called any number of times before.
Advance(j) ==
    \/ DownloadFinish(j)
    \/ DownloadFail(j)
    \/ ExtractUpdate(j)
    \/ \E n \in 0..MaxFrames : SampleFrames(j, n)
    \/ SampleFail(j)
    \/ \E judgment \in Judgments : AnalyzeFrame(j, judgment)
    \/ \E outcome \in TranscriptOutcomes : SavingUpdate(j, outcome)
    \/ \E outcome \in TranscriptOutcomes : TranscriptUpdate(j, outcome)
    \/ \E detected \in ConceptLists : ConceptsUpdate(j, detected)
    \/ CacheOpen(j)
    \/ CacheWrite(j)
    \/ CacheWriteFail(j)
    \/ CompletedUpdate(j)

NextLive ==
    \/ \E j \in Workers : JobStep(j)
    \/ \E video_id \in VideoIds : CancelVideoProcessing(video_id)
    \/ \E video_id \in VideoIds : GetVideoStatus(video_id)

SpecLive == Init /\ [][NextLive]_vars /\ \A j \in Workers : WF_vars(Advance(j))


(***************************************************************************)
(* Point queries against a cached analysis: the cache holds one analysis   *)
(* whose segments are drawn from the sets below, and queries are applied.  *)
(***************************************************************************)
QuerySegTimes == {100, 120, 130}
QueryTimes == {100, 110, 114, 116, 125, 140}
QueryTolerances == {0, 10, 14, 20}
QueryJudgments == {JudgmentCode, JudgmentLearning}

SetMin(S) == CHOOSE m \in S : \A x \in S : m <= x

RECURSIVE SortedSeq(_)
SortedSeq(S) == IF S = {} THEN <<>> ELSE <<SetMin(S)>> \o SortedSeq(S \ {SetMin(S)})

\* segment lists in sampling order: increasing timestamps, any classification
QuerySegmentLists ==
    UNION { { [i \in 1..Len(ts) |-> CodeSegment(ts[i], ts[i] + 1, k[i])] :
                k \in [1..Len(ts) -> QueryJudgments] } :
            ts \in {SortedSeq(S) : S \in SUBSET QuerySegTimes} }

InitQuery ==
    /\ cache \in {EmptyDict} \cup
         { CacheAnalysis(EmptyDict, VideoAnalysis("a", WatchA, Len(segs), segs, NoneOpt, NoneOpt, 0)) :
             segs \in QuerySegmentLists }
    /\ processing_progress = EmptyDict
    /\ files = {}
    /\ job = [j \in Jobs |-> IdleJob]
    /\ resp = NoResp
    /\ hist = [j \in Jobs |-> NoHist]
    /\ cancelled = {}
    /\ reader = NoReader
    /\ clock = 0

NextQuery ==
    \E timestamp \in QueryTimes, tolerance \in QueryTolerances :
        GetCodeAtTimestamp("a", timestamp, tolerance)

SpecQuery == InitQuery /\ [][NextQuery]_vars

(***************************************************************************)
(* The progress updates of the analyzing stage on their own: the update    *)
(* that enters the stage and the update of a turn of the frame loop,       *)
(* applied for every frame position of runs of up to MaxTotalFrames        *)
(* samples.                                                                *)
(***************************************************************************)
MaxTotalFrames == 15

\* the entry after the update that enters the analyzing stage
EnterAnalyzing(total_frames) ==
    /\ resp' = [op |-> "analyzing_update",
                out |-> AnalyzingUpdate(ExtractingUpdate(InitialProgress), total_frames)]
    /\ UNCHANGED <<cache, processing_progress, files, job, hist, cancelled, reader, clock>>

\* the entry after the update of the loop turn for frame current_frame
FrameLoopTurn(current_frame, total_frames) ==
    /\ resp' = [op |-> "frame_update",
                out |-> FrameUpdate(AnalyzingUpdate(ExtractingUpdate(InitialProgress),
                                                    total_frames),
                                    current_frame, total_frames)]
    /\ UNCHANGED <<cache, processing_progress, files, job, hist, cancelled, reader, clock>>

NextProgress ==
    \/ \E total_frames \in 0..MaxTotalFrames : EnterAnalyzing(total_frames)
    \/ \E total_frames \in 1..MaxTotalFrames :
          \E current_frame \in 1..total_frames :
              FrameLoopTurn(current_frame, total_frames)

SpecProgress == Init /\ [][NextProgress]_vars

(***************************************************************************)
(* The frame sampler on its own: extract_frames_fixed_interval applied to  *)
(* videos of a given frame count and frame rate.  Frame rates are counted  *)
(* in hundredths of a frame per second, intervals in ticks.                *)
(***************************************************************************)
MaxDecodedFrames == 8
SamplerFrameCounts == 0..MaxDecodedFrames
SamplerFps == {50, 100, 150, 250}
SamplerIntervals == {5, 10, 20}

\* fps * interval_seconds is (fps * interval_seconds) / FpsScale in these units
FpsScale == 1000

\* frame_interval = int(fps * interval_seconds): the fraction is cut off
SamplerFrameInterval(fps, interval_seconds) == (fps * interval_seconds) \div FpsScale

\* the tuple appended for the decoded frame at position frame_count (0-based):
\* CAP_PROP_POS_MSEC / 1000 in ticks and CAP_PROP_POS_FRAMES after the read
SampledFrame(frame_count, fps) ==
    [timestamp |-> (frame_count * FpsScale) \div fps, frame_number |-> frame_count + 1]

\* the read loop over the frames from position frame_count on
RECURSIVE ReadLoop(_, _, _, _)
ReadLoop(frame_count, total_frames, fps, frame_interval) ==
    IF frame_count >= total_frames THEN <<>>
    ELSE (IF frame_count % frame_interval = 0
          THEN <<SampledFrame(frame_count, fps)>> ELSE <<>>)
         \o ReadLoop(frame_count + 1, total_frames, fps, frame_interval)

\* extract_frames_fixed_interval: with frame_interval 0 the first
\* frame_count % frame_interval raises ZeroDivisionError
ExtractFramesFixedIntervalResult(total_frames, fps, interval_seconds) ==
    LET frame_interval == SamplerFrameInterval(fps, interval_seconds) IN
    IF total_frames > 0 /\ frame_interval = 0
    THEN [kind |-> "raise", frames_data |-> <<>>]
    ELSE [kind |-> "frames",
          frames_data |-> IF total_frames = 0 THEN <<>>
                          ELSE ReadLoop(0, total_frames, fps, frame_interval)]

ExtractFramesFixedInterval(total_frames, fps, interval_seconds) ==
    /\ resp' = [op |-> "sample", total_frames |-> total_frames, fps |-> fps,
                interval_seconds |-> interval_seconds,
                out |-> ExtractFramesFixedIntervalResult(total_frames, fps,
                                                         interval_seconds)]
    /\ UNCHANGED <<cache, processing_progress, files, job, hist, cancelled, reader, clock>>

NextSampler ==
    \E total_frames \in SamplerFrameCounts, fps \in SamplerFps,
       interval_seconds \in SamplerIntervals :
        ExtractFramesFixedInterval(total_frames, fps, interval_seconds)

SpecSampler == Init /\ [][NextSampler]_vars

(***************************************************************************)
(* Properties                                                              *)
(***************************************************************************)
\* the segments of the cached analysis a query response was computed from
RespSegments == cache[resp.video_id].code_segments
RespDiff(i) == Abs(RespSegments[i].timestamp - resp.timestamp)
\* the positions of the segments within tolerance of the requested timestamp
RespQualifying == {i \in 1..Len(RespSegments) : RespDiff(i) <= resp.tolerance}

\* C1: a query against a cached analysis with a segment within tolerance (a
\* distance equal to the tolerance counts) returns the segment at minimal
\* distance from the requested timestamp, and among several at that distance the
\* earliest in stored order; the response carries that segment's timestamp,
\* distance and kind.
C1_NearestWithinTolerance ==
    (resp.op = "query" /\ CacheFileExists(resp.video_id) /\ RespQualifying # {}) =>
        \E i \in RespQualifying :
            /\ \A k \in RespQualifying : RespDiff(i) <= RespDiff(k)
            /\ \A k \in RespQualifying : RespDiff(k) = RespDiff(i) => i <= k
            /\ resp.out.found
            /\ resp.out.timestamp_actual = RespSegments[i].timestamp
            /\ resp.out.time_difference = RespDiff(i)
            /\ resp.out.segment_type = RespSegments[i].segment_type
            /\ resp.out.code_content =
                 (IF RespSegments[i].segment_type = "code"
                  THEN RespSegments[i].code_content ELSE NoneStr)
            /\ resp.out.learning_topic =
                 (IF RespSegments[i].segment_type = "learning"
                  THEN RespSegments[i].learning_topic ELSE NoneStr)

\* segments at 10.0 s and 12.0 s, a query for 11.0 s with tolerance 1.0 s: both
\* lie at exactly the tolerance, the earlier one is returned
C1_Witness ==
    /\ resp.op = "query"
    /\ CacheFileExists(resp.video_id)
    /\ Len(RespSegments) = 2
    /\ RespSegments[1].timestamp = 100
    /\ RespSegments[2].timestamp = 120
    /\ resp.timestamp = 110
    /\ resp.tolerance = 10
    /\ resp.out.found
    /\ resp.out.timestamp_actual = 100


(***************************************************************************)
(* Properties of the service (one worker, status and cancel interleaved)   *)
(***************************************************************************)
\* the step is a process_video(url, force_reprocess=False) call by worker j
\* for video_id: either it returns at once or it starts a job
PlainProcessCall(j, video_id) ==
    /\ job[j].pc = "idle"
    /\ \/ /\ job'[j].pc # "idle"
          /\ job'[j].op = "process_video"
          /\ ~job'[j].force
          /\ job'[j].video_id = video_id
       \/ /\ job'[j].pc = "idle"
          /\ resp'.op = "process_video"
          /\ resp'.worker = j
          /\ ~resp'.force
          /\ resp'.video_id = video_id

\* C2: process_video without force_reprocess on an id that has a cache entry
\* (a complete document) returns the cached analysis and changes nothing: no progress entry is created
\* or modified, no job (retrieval, sampling, oracle) is started, no file and no
\* cache entry is written.
C2_CacheHitReturnsUnchanged ==
    [][\A j \in Jobs : \A video_id \in VideoIds :
         (PlainProcessCall(j, video_id) /\ HasAnalysis(video_id)) =>
            /\ resp'.op = "process_video"
            /\ resp'.kind = "analysis"
            /\ resp'.analysis = LoadCachedAnalysis(cache[video_id])
            /\ resp'.analysis.code_segments = cache[video_id].code_segments
            /\ job'[j].pc = "idle"
            /\ cache' = cache
            /\ processing_progress' = processing_progress
            /\ files' = files]_vars

\* a cache hit on an analysis with segments, while the progress entry of the
\* earlier run is still in the dict
C2_Witness ==
    /\ resp.op = "process_video"
    /\ ~resp.force
    /\ resp.kind = "analysis"
    /\ hist["w1"].stages = <<>>
    /\ hist["w1"].ended = "returned"
    /\ Len(resp.analysis.code_segments) >= 1
    /\ HasProgress(resp.video_id)

\* a sequence without its immediate repetitions
RECURSIVE Collapse(_)
Collapse(seq) ==
    IF Len(seq) <= 1 THEN seq
    ELSE IF seq[1] = seq[2] THEN Collapse(Tail(seq))
    ELSE <<seq[1]>> \o Collapse(Tail(seq))

StageOrder == <<"downloading", "extracting", "analyzing", "completed">>
IsPrefix(a, b) == Len(a) <= Len(b) /\ \A i \in 1..Len(a) : a[i] = b[i]

\* C3: the status values one process_video call writes to its progress entry
\* are, in order, a prefix of downloading, extracting, analyzing, completed
\* (completed is written twice, at 95 and at 100), and when the call has written
\* the cache it had entered analyzing and classified every sampled frame.
C3_StagesInOrder ==
    \A j \in Jobs :
        hist[j].op = "process_video" =>
            /\ IsPrefix(Collapse(hist[j].stages), StageOrder)
            /\ hist[j].wrote =>
                 /\ \E i \in 1..Len(hist[j].stages) : hist[j].stages[i] = "analyzing"
                 /\ HasAnalysis(hist[j].video_id) =>
                       cache[hist[j].video_id].total_frames_analyzed
                          = Len(cache[hist[j].video_id].code_segments)
            /\ (job[j].pc = "cache_dump") =>
                 Len(job[j].analysis.code_segments) = job[j].total_frames
            /\ (job[j].pc = "completed_update") =>
                 /\ Len(job[j].analysis.code_segments) = job[j].total_frames
                 /\ cache[job[j].video_id].code_segments = job[j].analysis.code_segments

\* a call that went through all four stages with two sampled frames
C3_Witness ==
    /\ hist["w1"].op = "process_video"
    /\ hist["w1"].ended = "returned"
    /\ hist["w1"].wrote
    /\ Collapse(hist["w1"].stages) = StageOrder
    /\ Len(cache[hist["w1"].video_id].code_segments) = 2

\* C4: a progress entry with status completed has progress 100 and its id has a
\* cache entry.
C4_CompletedMeansSaved ==
    \A video_id \in DOMAIN processing_progress :
        processing_progress[video_id].status = "completed" =>
            /\ processing_progress[video_id].progress = 100
            /\ CacheFileExists(video_id)

MediaFiles(video_id) == {f \in files : f.vid = video_id}

\* C6: status reports completed/100 whenever the id has a cache entry, whatever
\* the progress dict holds; without cache entry it reports the progress entry's
\* status, progress, stage and frame counters as they are; without either, and
\* with no media file on disk, it reports not_found/0.
C6_StatusPriority ==
    resp.op = "status" =>
        LET video_id == resp.video_id
            out == resp.out
        IN
        /\ CacheFileExists(video_id) => (out.status = "completed" /\ out.progress = 100)
        /\ (~CacheFileExists(video_id) /\ HasProgress(video_id)) =>
              /\ out.status = processing_progress[video_id].status
              /\ out.progress = processing_progress[video_id].progress
              /\ out.stage = processing_progress[video_id].stage
              /\ out.current_frame = processing_progress[video_id].current_frame
              /\ out.total_frames = processing_progress[video_id].total_frames
        /\ (~CacheFileExists(video_id) /\ ~HasProgress(video_id)
              /\ MediaFiles(video_id) = {}) =>
              (out.status = "not_found" /\ out.progress = 0)

\* status asked while a forced reprocess of a cached id is analyzing
C6_Witness ==
    /\ resp.op = "status"
    /\ CacheFileExists(resp.video_id)
    /\ HasProgress(resp.video_id)
    /\ processing_progress[resp.video_id].status = "analyzing"
    /\ resp.out.status = "completed"

\* the media files download_video has written for the URLs of an id
RetrievedMedia(video_id) ==
    {f \in files : \E url \in URLs :
        /\ ExtractVideoId(url) = video_id
        /\ f = DownloadPath(url, ExtractPlaylistId(url))}

\* C7: with a media file written by retrieval on disk and neither cache entry
\* nor progress entry, status reports processing/10.
C7_OrphanedMediaIsProcessing ==
    (resp.op = "status" /\ ~CacheFileExists(resp.video_id)
        /\ ~HasProgress(resp.video_id) /\ RetrievedMedia(resp.video_id) # {}) =>
        (resp.out.status = "processing" /\ resp.out.progress = 10)

\* C8: when cancel has returned, the id has no progress entry and no media file
\* written by retrieval is left on disk.
C8_CancelRemovesMedia ==
    resp.op = "cancel" =>
        /\ ~HasProgress(resp.video_id)
        /\ RetrievedMedia(resp.video_id) = {}

\* C9: cancel leaves every cache entry as it is; with no progress entry and no
\* media file for the id it changes nothing; and a second cancel changes nothing
\* the first has not changed.
C9_CancelKeepsCache ==
    [][resp'.op = "cancel" =>
         /\ cache' = cache
         /\ (~HasProgress(resp'.video_id) /\ MediaFiles(resp'.video_id) = {}) =>
               (processing_progress' = processing_progress /\ files' = files /\ job' = job)
         /\ CancelProgress(processing_progress', resp'.video_id) = processing_progress'
         /\ CancelFiles(files', resp'.video_id) = files'
         /\ CancelCache(cache', resp'.video_id) = cache']_vars

\* cancel of a cached id whose forced reprocess is running
C9_Witness ==
    /\ resp.op = "cancel"
    /\ CacheFileExists(resp.video_id)
    /\ job["w1"].pc # "idle"
    /\ job["w1"].video_id = resp.video_id
    /\ ~HasProgress(resp.video_id)

C11_CancelRaceAllOrNothing ==
    \A j \in Jobs :
        (hist[j].ended # "none" /\ hist[j].stages # <<>> /\ hist[j].wrote
            /\ resp.op = hist[j].op) =>
            (resp.worker = j =>
                /\ resp.kind # "error"
                /\ HasProgress(hist[j].video_id)
                /\ processing_progress[hist[j].video_id].status = "completed"
                /\ processing_progress[hist[j].video_id].progress = 100)

\* C12: a status or query call that finds the cache file of its id finds a
\* complete document in it, never a file that exists and is still empty or
\* partly written.
C12_ReadersSeeCompleteRecords ==
    (resp.op \in {"status", "query"} /\ CacheFileExists(resp.video_id)) =>
        Decodable(cache[resp.video_id])

\* the five values of a progress record or of a status response
ProgressTuple(r) == [i \in 1..Len(StatusFields) |-> r[StatusFields[i]]]

\* C13: a status call that reports a progress entry, and whose thread was
\* suspended while it read the entry, returns the values the entry held at one
\* instant: all as they were when it began or all as they are when it ends.
C13_StatusIsSnapshot ==
    resp.op = "status_resumed" =>
        \/ ProgressTuple(resp.out) = ProgressTuple(resp.first)
        \/ ProgressTuple(resp.out) = ProgressTuple(resp.last)

\* C14: at no time do two workers run a job (process_video past its cache
\* check, download_video_only past its already-downloaded check) for the same
\* video id.
C14_OneJobPerVideo ==
    \A j, k \in Jobs :
        (j # k /\ job[j].pc # "idle" /\ job[k].pc # "idle") =>
            job[j].video_id # job[k].video_id

\* a step in which worker j completes a _cache_analysis call: the write that
\* ends a job, or the write of a backfill
PutBy(j) ==
    \/ job[j].pc = "cache_dump" /\ job'[j].pc = "completed_update"
    \/ /\ job[j].pc = "idle" /\ job'[j].pc = "idle"
       /\ hist'[j].op = "download_video_only" /\ hist'[j].wrote
       /\ hist'[j].stages = <<>> /\ hist'[j] # hist[j]

\* the analysis handed to that _cache_analysis call, and its id
PutAnalysis(j) == IF job[j].pc = "cache_dump" THEN job[j].analysis ELSE resp'.analysis

\* the fields of an analysis that are always written
PlainFields ==
    {"video_id", "video_title", "duration", "total_frames_analyzed",
     "code_segments", "metadata", "extraction_date"}
OptionalFields == {"transcript", "detected_concepts"}

\* C15 as claimed: the analysis loaded after a cache write equals the analysis
\* written, in every field.
C15_RoundTrip ==
    [][\A j \in Jobs :
         PutBy(j) =>
            LoadCachedAnalysis(cache'[PutAnalysis(j).video_id]) = PutAnalysis(j)]_vars

\* C15: the analysis loaded after a cache write equals the analysis written in
\* video_id, title, duration, frame count, metadata, extraction date and the
\* ordered segment list; transcript and concepts are equal when the written
\* list is non-empty, and are None when the written field is None or an empty
\* list.
C15_RoundTripPopulated ==
    [][\A j \in Jobs :
         PutBy(j) =>
            LET A == PutAnalysis(j)
                B == LoadCachedAnalysis(cache'[A.video_id])
            IN /\ \A f \in PlainFields : B[f] = A[f]
               /\ \A f \in OptionalFields :
                     B[f] = IF A[f].some /\ A[f].val # <<>> THEN A[f] ELSE NoneOpt]_vars

\* a download-only job has just written an analysis with a transcript and an
\* empty concept list; the document holds the transcript and no concepts key
C15_Witness ==
    /\ job["w1"].pc = "completed_update"
    /\ job["w1"].op = "download_video_only"
    /\ Truthy(job["w1"].analysis.transcript)
    /\ job["w1"].analysis.detected_concepts = Some(<<>>)
    /\ HasAnalysis(job["w1"].video_id)
    /\ cache[job["w1"].video_id].transcript = JsonList(job["w1"].analysis.transcript.val)
    /\ cache[job["w1"].video_id].detected_concepts = Omitted

\* C16: a stored document without the transcript or the detected_concepts key
\* is decoded without error, the field being None; and no document written by
\* _cache_analysis holds such a key with a null value: when the field of the
\* analysis is None the key is left out.
C16_SchemaTolerance ==
    /\ \A video_id \in DOMAIN cache :
          Decodable(cache[video_id]) =>
             \A f \in OptionalFields :
                 /\ cache[video_id][f].present => cache[video_id][f].some
                 /\ ~cache[video_id][f].present =>
                       LoadCachedAnalysis(cache[video_id])[f] = NoneOpt
    /\ \A j \in Jobs :
          job[j].pc = "completed_update" =>
             \A f \in OptionalFields :
                 job[j].analysis[f] = NoneOpt => ~cache[job[j].video_id][f].present
    /\ (resp.op = "process_video" /\ ~resp.force /\ HasAnalysis(resp.video_id)
           /\ hist[resp.worker].stages = <<>>) =>
          /\ resp.kind = "analysis"
          /\ \A f \in OptionalFields :
                ~cache[resp.video_id][f].present => resp.analysis[f] = NoneOpt

\* a cache hit on a document that has neither optional key
C16_Witness ==
    /\ resp.op = "process_video"
    /\ ~resp.force
    /\ resp.kind = "analysis"
    /\ hist["w1"].stages = <<>>
    /\ ~cache[resp.video_id].transcript.present
    /\ ~cache[resp.video_id].detected_concepts.present
    /\ resp.analysis.transcript = NoneOpt
    /\ resp.analysis.detected_concepts = NoneOpt

\* C17: when download_video_only takes the backfill path (media file and cache
\* document exist), running the backfill once more, the caption and concept
\* services answering as they did, leaves the cache as the first run left it.
C17_BackfillIdempotent ==
    [][\A j \in Jobs, url \in URLs, outcome \in TranscriptOutcomes,
          detected \in ConceptLists :
         (AlreadyDownloaded(url) /\ HasAnalysis(ExtractVideoId(url))
             /\ DownloadVideoOnly(j, url, outcome, detected)) =>
            /\ LazyVideoFile(url) \in files'
            /\ ExtractVideoId(url) \in DOMAIN cache'
            /\ BackfillCache(cache', ExtractVideoId(url), outcome, detected) = cache']_vars

\* a backfill has just added transcript and concepts to a cached analysis
C17_Witness ==
    /\ resp.op = "download_video_only"
    /\ resp.kind = "summary"
    /\ hist["w1"].stages = <<>>
    /\ hist["w1"].wrote
    /\ Truthy(resp.analysis.transcript)
    /\ Truthy(resp.analysis.detected_concepts)
    /\ cache[resp.video_id].detected_concepts = JsonList(resp.analysis.detected_concepts.val)

\* C18: when download_video_only has taken the backfill path for a cached
\* analysis without transcript and no captions were obtained (the document
\* still has no transcript), the call has returned the summary, not raised.
C18_BackfillWithoutCaptions ==
    \A j \in Jobs :
        (hist[j].op = "download_video_only" /\ hist[j].stages = <<>>
            /\ hist[j].ended # "none" /\ resp.op = "download_video_only"
            /\ HasAnalysis(hist[j].video_id)
            /\ ~cache[hist[j].video_id].transcript.present) =>
            (resp.worker = j =>
                /\ resp.kind = "summary"
                /\ resp.analysis.transcript = NoneOpt)

\* C19: in process_video, when the transcript step finds no captions or
\* raises, the job goes on to its cache write with every classified segment
\* and transcript None; the document written holds those segments and no
\* transcript; and the job, its progress entry still present, returns the
\* analysis with the entry at completed/100.
C19_TranscriptFailureTolerated ==
    [][\A j \in Jobs :
         job[j].op = "process_video" =>
            /\ \A outcome \in {"none", "raise"} :
                  (job[j].pc = "frames" /\ HasProgress(job[j].video_id)
                      /\ SavingUpdate(j, outcome)) =>
                     /\ job'[j].pc = "cache_write"
                     /\ job'[j].analysis.transcript = NoneOpt
                     /\ Len(job'[j].analysis.code_segments) = job[j].total_frames
                     /\ job'[j].analysis.code_segments = job[j].analysis.code_segments
            /\ (job[j].pc = "cache_dump" /\ CacheWrite(j)) =>
                  /\ cache'[job[j].video_id].code_segments = job[j].analysis.code_segments
                  /\ job[j].analysis.transcript = NoneOpt =>
                        ~cache'[job[j].video_id].transcript.present
            /\ (job[j].pc = "completed_update" /\ HasProgress(job[j].video_id)
                   /\ CompletedUpdate(j)) =>
                  /\ resp'.kind = "analysis"
                  /\ resp'.analysis = job[j].analysis
                  /\ processing_progress'[job[j].video_id].status = "completed"
                  /\ processing_progress'[job[j].video_id].progress = 100]_vars

\* a process_video call has returned an analysis with a segment and without
\* transcript, its progress entry at completed/100
C19_Witness ==
    /\ resp.op = "process_video"
    /\ resp.kind = "analysis"
    /\ hist["w1"].wrote
    /\ hist["w1"].ended = "returned"
    /\ resp.analysis.transcript = NoneOpt
    /\ Len(resp.analysis.code_segments) >= 1
    /\ ~cache[resp.video_id].transcript.present
    /\ processing_progress[resp.video_id].progress = 100

\* C20: for a URL of any form, once the media file download_video wrote for it
\* and a cache document under its id exist, a download_video_only call for that
\* URL starts no job: it creates no progress entry and retrieves nothing.
C20_SecondDownloadShortCircuits ==
    [][\A j \in Jobs, url \in UrlForms :
         (/\ HasAnalysis(ExtractVideoId(url))
          /\ DownloadPath(url, ExtractPlaylistId(url)) \in files
          /\ \E outcome \in TranscriptOutcomes, detected \in ConceptLists :
                DownloadVideoOnly(j, url, outcome, detected)) =>
            /\ job'[j].pc = "idle"
            /\ processing_progress' = processing_progress
            /\ files' = files]_vars

\* the segment process_video records for a frame whose analysis failed
DefaultSegment(idx) ==
    CodeSegment(FrameSample(idx).timestamp, FrameSample(idx).frame_number,
                CreateErrorResult)

\* C21: when the model call for a sampled frame fails (client exception, text
\* that is no JSON, JSON that is no object, object without segment_type), the
\* frame loop records a segment of kind learning with confidence 0, topic
\* 'Analysis failed' and no code, and goes on with the next frame; a job leaves
\* the frame loop by raising only when its progress entry is gone, and it
\* reaches its cache write with one segment per sampled frame.
C21_OracleFailureAbsorbed ==
    [][\A j \in Jobs :
         /\ \A outcome \in OracleFailures :
               (/\ job[j].pc = "frames"
                /\ Len(job[j].analysis.code_segments) < job[j].total_frames
                /\ HasProgress(job[j].video_id)
                /\ AnalyzeFrame(j, AnalyzeFrameResult(outcome))) =>
                  LET idx == Len(job[j].analysis.code_segments)
                      segment == job'[j].analysis.code_segments[idx + 1]
                  IN /\ job'[j].pc = "frames"
                     /\ Len(job'[j].analysis.code_segments) = idx + 1
                     /\ segment = DefaultSegment(idx)
                     /\ segment.segment_type = "learning"
                     /\ segment.confidence = 0
                     /\ segment.learning_topic = "Analysis failed"
                     /\ segment.code_content = NoneStr
         /\ (job[j].pc = "frames" /\ job'[j].pc = "idle") =>
               ~HasProgress(job[j].video_id)
         /\ (job[j].pc = "frames" /\ job'[j].pc = "cache_write") =>
               Len(job'[j].analysis.code_segments) = job[j].total_frames]_vars

\* a job whose two frames both failed has cached two default segments and
\* returned
C21_Witness ==
    /\ hist["w1"].op = "process_video"
    /\ hist["w1"].ended = "returned"
    /\ HasAnalysis(hist["w1"].video_id)
    /\ cache[hist["w1"].video_id].total_frames_analyzed = 2
    /\ cache[hist["w1"].video_id].code_segments = <<DefaultSegment(0), DefaultSegment(1)>>

\* round(p / q) as Python rounds: to the nearest integer, a half to the even one
RoundHalfEven(p, q) ==
    LET fl == p \div q
        rem == p % q
    IN IF 2 * rem < q THEN fl
       ELSE IF 2 * rem > q THEN fl + 1
       ELSE IF fl % 2 = 0 THEN fl ELSE fl + 1

\* C22: for a video of N decodable frames at frame rate fps and an interval
\* i > 0, the sampler returns normally, and with k = round(fps * i) it returns
\* exactly floor(N / k) samples.
C22_SampleCount ==
    resp.op = "sample" =>
        LET k == RoundHalfEven(resp.fps * resp.interval_seconds, FpsScale) IN
        /\ resp.out.kind = "frames"
        /\ IF k = 0 THEN TRUE
           ELSE Len(resp.out.frames_data) = resp.total_frames \div k

\* the j-th segment of a list carries the j-th sample's timestamp and frame number
MatchesSamples(code_segments) ==
    \A i \in 1..Len(code_segments) :
        /\ code_segments[i].timestamp = FrameSample(i - 1).timestamp
        /\ code_segments[i].frame_number = FrameSample(i - 1).frame_number

\* C23: each turn of the frame loop appends one segment that carries its
\* sample's timestamp and frame number, whatever the classification of the
\* segment before it; the list a process_video job writes has one segment per
\* sample, in sampling order, and so has every cached analysis; a query at
\* 2.3 s with tolerance 1.0 s against an analysis of two or more samples taken
\* every 2 s returns the segment at 2.0 s.
C23_SegmentsFollowSamples ==
    [][/\ \A j \in Jobs :
            /\ (/\ job[j].pc = "frames"
                /\ HasProgress(job[j].video_id)
                /\ \E judgment \in Judgments : AnalyzeFrame(j, judgment)) =>
                  LET idx == Len(job[j].analysis.code_segments) IN
                  /\ Len(job'[j].analysis.code_segments) = idx + 1
                  /\ SubSeq(job'[j].analysis.code_segments, 1, idx)
                        = job[j].analysis.code_segments
                  /\ MatchesSamples(job'[j].analysis.code_segments)
            /\ (job[j].op = "process_video" /\ job[j].pc = "cache_dump"
                   /\ CacheWrite(j)) =>
                  /\ Len(cache'[job[j].video_id].code_segments) = job[j].total_frames
                  /\ MatchesSamples(cache'[job[j].video_id].code_segments)
       /\ \A video_id \in DOMAIN cache' :
            Decodable(cache'[video_id]) =>
               /\ MatchesSamples(cache'[video_id].code_segments)
               /\ Len(cache'[video_id].code_segments)
                     = cache'[video_id].total_frames_analyzed
       /\ (/\ resp'.op = "query"
           /\ resp'.timestamp = 23
           /\ resp'.tolerance = 10
           /\ HasAnalysis(resp'.video_id)
           /\ Len(cache[resp'.video_id].code_segments) >= 2) =>
             /\ resp'.out.found
             /\ resp'.out.timestamp_actual = 20]_vars

\* two adjacent samples with the same classification are both in the cache, and
\* the query at 2.3 s has returned the second
C23_Witness ==
    /\ resp.op = "query"
    /\ resp.timestamp = 23
    /\ HasAnalysis(resp.video_id)
    /\ Len(cache[resp.video_id].code_segments) = 2
    /\ cache[resp.video_id].code_segments[1].code_content = "print(1)"
    /\ cache[resp.video_id].code_segments[2].code_content = "print(1)"
    /\ cache[resp.video_id].code_segments[1].timestamp = 0
    /\ cache[resp.video_id].code_segments[2].timestamp = 20
    /\ resp.out.found
    /\ resp.out.timestamp_actual = 20

(***************************************************************************)
(* Properties of the service with concept detection                        *)
(***************************************************************************)
\* C24: the cache holds one document per video id, stored under that id; a
\* process_video run starts from an empty segment list, and its cache write
\* puts exactly the analysis of that run in the place of whatever the cache
\* held for the id: the segments are those of the run, one per sample of the
\* run, and nothing of the earlier document is kept.
C24_ReprocessReplaces ==
    [][/\ \A video_id \in DOMAIN cache' :
            Decodable(cache'[video_id]) => cache'[video_id].video_id = video_id
       /\ \A j \in Jobs :
            job[j].op = "process_video" =>
               /\ (job[j].pc = "sample" /\ job'[j].pc = "frames") =>
                     job'[j].analysis.code_segments = <<>>
               /\ (job[j].pc = "cache_dump" /\ CacheWrite(j)) =>
                     /\ cache'[job[j].video_id] = CacheDocument(job[j].analysis)
                     /\ cache'[job[j].video_id].code_segments
                           = job[j].analysis.code_segments
                     /\ Len(cache'[job[j].video_id].code_segments) = job[j].total_frames
                     /\ ~cache'[job[j].video_id].detected_concepts.present
                     /\ DOMAIN cache' = DOMAIN cache]_vars

\* a forced reprocess has returned after it replaced a cached analysis of other
\* segments with its own single segment
C24_Witness ==
    /\ resp.op = "process_video"
    /\ resp.force
    /\ resp.kind = "analysis"
    /\ hist["w1"].op = "process_video"
    /\ hist["w1"].replaced
    /\ hist["w1"].ended = "returned"
    /\ Len(resp.analysis.code_segments) = 1
    /\ cache[resp.video_id].code_segments = resp.analysis.code_segments

\* C25: a download_video_only call never opens for writing, and so never
\* replaces with its record of no segments, a cache file that holds an analysis
\* with segments.
C25_DownloadKeepsSegments ==
    \A j \in Jobs :
        hist[j].op = "download_video_only" => ~hist[j].replaced

(***************************************************************************)
(* Properties of point queries                                             *)
(***************************************************************************)
\* C26: a query against a cached analysis in which no segment lies within the
\* tolerance of the requested timestamp (an analysis without any segment
\* included) returns found = false with the requested timestamp, and no error.
C26_NoSegmentInTolerance ==
    (resp.op = "query" /\ CacheFileExists(resp.video_id) /\ RespQualifying = {}) =>
        /\ resp.out.kind = "not_found"
        /\ ~resp.out.found
        /\ resp.out.timestamp_requested = resp.timestamp

\* segments at 10.0 s and 13.0 s, a query for 11.6 s with tolerance 1.0 s
C26_Witness ==
    /\ resp.op = "query"
    /\ CacheFileExists(resp.video_id)
    /\ Len(RespSegments) = 2
    /\ RespSegments[1].timestamp = 100
    /\ RespSegments[2].timestamp = 130
    /\ resp.timestamp = 116
    /\ resp.tolerance = 10
    /\ ~resp.out.found
    /\ resp.out.kind = "not_found"
    /\ resp.out.timestamp_requested = 116

\* C27: a query for an id without cache file returns the error result 'Video
\* not processed yet', which is no found = false answer, also while a job for
\* the id is running; the call creates no cache file and no progress entry and
\* changes none.
C27_QueryUncached ==
    [][\A video_id \in VideoIds, timestamp \in PollTimes, tolerance \in PollTolerances :
         (~CacheFileExists(video_id)
             /\ GetCodeAtTimestamp(video_id, timestamp, tolerance)) =>
            /\ resp'.op = "query"
            /\ resp'.out.kind = "error"
            /\ resp'.out.kind # "not_found"
            /\ DOMAIN cache' = DOMAIN cache
            /\ DOMAIN processing_progress' = DOMAIN processing_progress
            /\ cache' = cache
            /\ processing_progress' = processing_progress]_vars

\* a query for an id whose first job is analyzing frames
C27_Witness ==
    /\ resp.op = "query"
    /\ resp.out.kind = "error"
    /\ ~CacheFileExists(resp.video_id)
    /\ HasProgress(resp.video_id)
    /\ processing_progress[resp.video_id].status = "analyzing"
    /\ job["w1"].pc = "frames"
    /\ job["w1"].video_id = resp.video_id

\* C28: a query only reads: it leaves the cache, the progress dict, the media
\* files and the running jobs as they are, and the same query asked again
\* right after it returns the same result.
C28_QueryIsPureRead ==
    [][\A video_id \in VideoIds, timestamp \in PollTimes, tolerance \in PollTolerances :
         GetCodeAtTimestamp(video_id, timestamp, tolerance) =>
            /\ cache' = cache
            /\ processing_progress' = processing_progress
            /\ files' = files
            /\ job' = job
            /\ GetCodeAtTimestampResult(video_id, timestamp, tolerance)' = resp'.out]_vars

\* a query answered from the cached analysis while a forced reprocess of the
\* id is analyzing frames
C28_Witness ==
    /\ resp.op = "query"
    /\ resp.out.found
    /\ HasAnalysis(resp.video_id)
    /\ HasProgress(resp.video_id)
    /\ job["w1"].pc = "frames"
    /\ job["w1"].force
    /\ job["w1"].video_id = resp.video_id

\* C29: detect_and_store_concepts on a cached analysis stores the list the new
\* detection run returned in the place of the concepts stored before: reading
\* the concepts back gives that list, an empty one included, and nothing of the
\* earlier list; segments, transcript, metadata and the other fields of the
\* document are as before.  On an id without cache file it returns an empty
\* list and writes nothing.
C29_DetectOverwritesConcepts ==
    [][\A j \in Jobs, video_id \in VideoIds, reply \in ConceptReplies :
         (/\ resp'.op = "detect"
          /\ resp'.worker = j
          /\ resp'.video_id = video_id
          /\ DetectAndStoreConcepts(j, video_id, reply)) =>
            /\ processing_progress' = processing_progress
            /\ files' = files
            /\ HasAnalysis(video_id) =>
                  LET before == LoadCachedAnalysis(cache[video_id])
                      after == LoadCachedAnalysis(cache'[video_id])
                  IN /\ resp'.kind = "list"
                     /\ resp'.out = DetectConcepts(before.transcript,
                                                   before.code_segments, reply)
                     /\ GetDetectedConceptsResult(video_id)' = resp'.out
                     /\ resp'.out = <<>> => after.detected_concepts = NoneOpt
                     /\ \A f \in PlainFields : after[f] = before[f]
                     /\ after.transcript = before.transcript
                     /\ cache'[video_id].transcript = cache[video_id].transcript
                     /\ DOMAIN cache' = DOMAIN cache
                     /\ \A other \in DOMAIN cache \ {video_id} :
                           cache'[other] = cache[other]
            /\ ~CacheFileExists(video_id) =>
                  /\ resp'.kind = "list"
                  /\ resp'.out = <<>>
                  /\ cache' = cache]_vars

\* a detection run that found nothing on an analysis with a segment and stored
\* concepts: no concepts are stored any more
C29_Witness ==
    /\ resp.op = "detect"
    /\ resp.kind = "list"
    /\ resp.stored # <<>>
    /\ resp.out = <<>>
    /\ HasAnalysis(resp.video_id)
    /\ Len(cache[resp.video_id].code_segments) >= 1
    /\ GetDetectedConceptsResult(resp.video_id) = <<>>
    /\ ~cache[resp.video_id].detected_concepts.present

\* the timestamps of the segments and of the transcript entries of an analysis
ObservedTimes(analysis) ==
    {analysis.code_segments[i].timestamp : i \in 1..Len(analysis.code_segments)}
    \cup {analysis.transcript.val[i].timestamp : i \in 1..Len(analysis.transcript.val)}

\* C30: in every cached analysis, every timestamp of every stored concept is
\* the timestamp of one of the analysis's segments or transcript entries.
C30_ConceptTimesObserved ==
    \A video_id \in DOMAIN cache :
        Decodable(cache[video_id]) =>
            LET analysis == LoadCachedAnalysis(cache[video_id])
                concepts == analysis.detected_concepts.val
            IN \A i \in 1..Len(concepts) :
                  \A k \in 1..Len(concepts[i].timestamps) :
                      concepts[i].timestamps[k] \in ObservedTimes(analysis)

(***************************************************************************)
(* Properties of the progress records                                      *)
(***************************************************************************)
\* C31: a progress entry with status downloading has a progress value within
\* 0..15.
C31_DownloadingPercent ==
    \A video_id \in DOMAIN processing_progress :
        processing_progress[video_id].status = "downloading" =>
            /\ processing_progress[video_id].progress >= 0
            /\ processing_progress[video_id].progress <= 15

\* C32: an entry with status analyzing has 0 <= current_frame <= total_frames;
\* with total_frames >= 1 its progress is 20 + floor(75 * current_frame /
\* total_frames), which lies within 20..95 and is 95 exactly when current_frame
\* = total_frames; with total_frames = 0 its progress is 20.
C32_AnalyzingPercent ==
    (resp.op \in {"analyzing_update", "frame_update"} /\ resp.out.status = "analyzing") =>
        LET info == resp.out IN
        /\ 0 <= info.current_frame
        /\ info.current_frame <= info.total_frames
        /\ info.total_frames = 0 => info.progress = 20
        /\ info.total_frames >= 1 =>
              /\ info.progress = 20 + (75 * info.current_frame) \div info.total_frames
              /\ 20 <= info.progress
              /\ info.progress <= 95
              /\ (info.progress = 95) <=> (info.current_frame = info.total_frames)

(***************************************************************************)
(* Properties of the cached analyses                                       *)
(***************************************************************************)
\* C33: in every cached analysis the timestamps of the segments increase
\* strictly along the stored list, and so do their frame numbers; no two
\* segments of an analysis have the same timestamp.
C33_TimestampsIncrease ==
    \A video_id \in DOMAIN cache :
        Decodable(cache[video_id]) =>
            LET code_segments == cache[video_id].code_segments IN
            \A i, k \in 1..Len(code_segments) :
                i < k =>
                    /\ code_segments[i].timestamp < code_segments[k].timestamp
                    /\ code_segments[i].frame_number < code_segments[k].frame_number

\* an analysis of two segments after process_video wrote it and a concept
\* detection run rewrote it
C33_Witness ==
    /\ resp.op = "detect"
    /\ resp.kind = "list"
    /\ HasAnalysis(resp.video_id)
    /\ Len(cache[resp.video_id].code_segments) = 2
    /\ cache[resp.video_id].code_segments[1].timestamp = 0
    /\ cache[resp.video_id].code_segments[2].timestamp = 20
    /\ cache[resp.video_id].code_segments[1].frame_number
          < cache[resp.video_id].code_segments[2].frame_number

\* C34: every segment of every cached analysis has segment_type code or
\* learning, and a query response of the code shape (code text, language,
\* completeness flag) stems from a segment whose segment_type is code.
C34_KindIsCodeOrLearning ==
    /\ \A video_id \in DOMAIN cache :
          Decodable(cache[video_id]) =>
             \A i \in 1..Len(cache[video_id].code_segments) :
                 cache[video_id].code_segments[i].segment_type \in {"code", "learning"}
    /\ (resp.op = "query" /\ HasAnalysis(resp.video_id) /\ resp.out.kind = "code") =>
          \E i \in 1..Len(cache[resp.video_id].code_segments) :
              /\ cache[resp.video_id].code_segments[i].timestamp
                    = resp.out.timestamp_actual
              /\ cache[resp.video_id].code_segments[i].segment_type = "code"

\* C35: the extraction_date of a cached analysis is the time of its last
\* write: a step that writes a complete document for an id, new or different
\* from the one before, stores it with the extraction_date of that moment.
C35_ExtractionDateIsLastWrite ==
    [][\A video_id \in DOMAIN cache' :
          LET rewritten == IF video_id \in DOMAIN cache
                           THEN cache'[video_id] # cache[video_id] ELSE TRUE
          IN (rewritten /\ Decodable(cache'[video_id])) =>
                cache'[video_id].extraction_date = clock']_vars

(***************************************************************************)
(* Properties of calls for different videos                                *)
(***************************************************************************)
\* the progress entry and the cache document of every other id are as before
UntouchedExcept(video_id) ==
    \A other \in VideoIds \ {video_id} :
        /\ (other \in DOMAIN processing_progress') = (other \in DOMAIN processing_progress)
        /\ IF other \in DOMAIN processing_progress /\ other \in DOMAIN processing_progress'
           THEN processing_progress'[other] = processing_progress[other] ELSE TRUE
        /\ (other \in DOMAIN cache') = (other \in DOMAIN cache)
        /\ IF other \in DOMAIN cache /\ other \in DOMAIN cache'
           THEN cache'[other] = cache[other] ELSE TRUE

\* C36: a step of a process_video or download_video_only call (its failure
\* included), a cancel or a concept detection for one id leaves the progress
\* entry and the cache document of every other id unchanged, however the
\* calls of two threads for different ids interleave.
C36_OtherIdsUntouched ==
    [][/\ \A j \in Jobs :
             ApartStep(j) => UntouchedExcept(ExtractVideoId(ApartUrl(j)))
       /\ \A video_id \in VideoIds :
             (resp'.op = "cancel" /\ CancelVideoProcessing(video_id)) =>
                UntouchedExcept(video_id)
       /\ \A j \in Jobs, video_id \in VideoIds :
             (resp'.op = "detect" /\
              DetectAndStoreConcepts(j, video_id, [ok |-> FALSE, concepts |-> <<>>])) =>
                UntouchedExcept(video_id)]_vars

\* a cancel of one video has removed its running job's entry while the other
\* thread's job is in its frame loop, its entry in place
C36_Witness ==
    /\ resp.op = "cancel"
    /\ resp.video_id = "a"
    /\ job["w1"].pc # "idle"
    /\ "a" \notin DOMAIN processing_progress
    /\ job["w2"].pc = "frames"
    /\ "b" \in DOMAIN processing_progress
    /\ processing_progress["b"].status = "analyzing"

(***************************************************************************)
(* Properties of a job's progress entry                                    *)
(***************************************************************************)
\* C37: while a call runs, from the creation of its progress entry to its
\* removal or its completion, no step lowers the entry's progress, and the
\* progress stays within 0..100.
C37_PercentNeverDecreases ==
    [][\A j \in Jobs :
          LET video_id == job[j].video_id IN
          (/\ job[j].pc # "idle"
           /\ video_id \in DOMAIN processing_progress
           /\ video_id \in DOMAIN processing_progress') =>
             /\ processing_progress'[video_id].progress
                   >= processing_progress[video_id].progress
             /\ processing_progress'[video_id].progress \in 0..100]_vars

\* C38: a process_video call whose progress entry a cancel removed before its
\* 'Saving analysis...' update never reaches its cache write, and when it has
\* ended, it has ended with an exception to its caller.
C38_CancelledJobNeverWrites ==
    \A j \in Jobs :
        hist[j].cut =>
           /\ ~hist[j].wrote
           /\ ~AboutToWrite(j)
           /\ job[j].pc = "idle" => hist[j].ended = "raised"

(***************************************************************************)
(* Properties of a forced reprocess                                        *)
(***************************************************************************)
\* the steps of process_video before open(cache_file, 'w')
PreWritePcs == {"download", "extract_update", "sample", "frames", "cache_write"}

\* C39: while a process_video call with force_reprocess runs on an id whose
\* analysis is cached, every step up to (not including) the opening of the
\* cache file, the call's failure among them, leaves the cache as it was, and
\* the status of the id is completed/100 before and after the step.
C39_FailedReprocessKeepsCache ==
    [][\A j \in Jobs, video_id \in VideoIds :
          (/\ job[j].video_id = video_id
           /\ job[j].op = "process_video"
           /\ job[j].force
           /\ job[j].pc \in PreWritePcs
           /\ HasAnalysis(video_id)
           /\ job'[j].pc # "cache_dump") =>
             /\ cache' = cache
             /\ GetVideoStatusResult(video_id).status = "completed"
             /\ GetVideoStatusResult(video_id).progress = 100
             /\ GetVideoStatusResult(video_id)'.status = "completed"
             /\ GetVideoStatusResult(video_id)'.progress = 100]_vars

\* a forced reprocess of a cached video has failed in the download, and the
\* status call after it answers completed/100 from the analysis cached before
C39_Witness ==
    /\ hist["w1"].op = "process_video"
    /\ hist["w1"].ended = "raised"
    /\ hist["w1"].at = "download"
    /\ job["w1"].pc = "idle"
    /\ HasSegments(hist["w1"].video_id)
    /\ resp.op = "status"
    /\ resp.video_id = hist["w1"].video_id
    /\ resp.out.status = "completed"
    /\ resp.out.progress = 100

(***************************************************************************)
(* Termination of the calls                                                *)
(***************************************************************************)
\* the progress entry of the id of worker j's latest call is absent, or it is
\* completed/100 and the analysis is cached
TerminatedWell(j) ==
    LET ended_id == hist[j].video_id IN
    \/ ended_id \notin DOMAIN processing_progress
    \/ /\ processing_progress[ended_id].status = "completed"
       /\ processing_progress[ended_id].progress = 100
       /\ HasAnalysis(ended_id)

\* C40: every running process_video / download_video_only call ends, with
\* the progress entry of its id absent or completed/100 and the analysis
\* cached; no call stays for ever in one of its steps.
C40_JobsTerminate ==
    \A j \in Workers :
        (job[j].pc # "idle") ~> (job[j].pc = "idle" /\ TerminatedWell(j))

\* a process_video call on a video without samples has returned: the entry is
\* completed/100 and the cached analysis has no segments
C40_Witness ==
    /\ job["w1"].pc = "idle"
    /\ hist["w1"].op = "process_video"
    /\ hist["w1"].ended = "returned"
    /\ hist["w1"].stages = <<"downloading", "extracting", "analyzing", "completed", "completed">>
    /\ hist["w1"].video_id \in DOMAIN processing_progress
    /\ processing_progress[hist["w1"].video_id].status = "completed"
    /\ processing_progress[hist["w1"].video_id].progress = 100
    /\ processing_progress[hist["w1"].video_id].total_frames = 0
    /\ HasAnalysis(hist["w1"].video_id)
    /\ cache[hist["w1"].video_id].code_segments = <<>>

=============================================================================
